---------------------------- MODULE Spec2Model ----------------------------
(***************************************************************************)
(* A model of the MOSDAC help bot: the intent and entity extractor         *)
(* (nlu_processor.py), the dialogue engine with its one-slot               *)
(* conversational memory (bot_logic.py), the generative client and the     *)
(* read side of the knowledge-store adapter (kg_manager.py).               *)
(*                                                                         *)
(* Text is a sequence of one-character strings, so that str.lower(),       *)
(* str.replace() and the substring test "k in t" are computed as Python    *)
(* computes them.                                                          *)
(***************************************************************************)
EXTENDS Integers, Sequences, FiniteSets, TLC

\* An optional value: None, or Some(v).  Python's None is distinct from "".
None == << >>

Some(v) == <<v>>

\* Truth value of an optional string: None and "" are both false.
Truthy(opt) == opt # None /\ opt[1] # << >>

(***************************************************************************)
(* Python string primitives.                                               *)
(***************************************************************************)
UpperToLower ==
   ("A" :> "a") @@ ("B" :> "b") @@ ("C" :> "c") @@ ("D" :> "d") @@ ("E" :> "e") @@ ("F" :> "f") @@ ("G" :> "g") @@
   ("H" :> "h") @@ ("I" :> "i") @@ ("J" :> "j") @@ ("K" :> "k") @@ ("L" :> "l") @@ ("M" :> "m") @@ ("N" :> "n") @@
   ("O" :> "o") @@ ("P" :> "p") @@ ("Q" :> "q") @@ ("R" :> "r") @@ ("S" :> "s") @@ ("T" :> "t") @@ ("U" :> "u") @@
   ("V" :> "v") @@ ("W" :> "w") @@ ("X" :> "x") @@ ("Y" :> "y") @@ ("Z" :> "z")

\* str.lower(): every cased character is replaced by its lower-case form.
lower(s) ==
   [i \in 1..Len(s) |-> IF s[i] \in DOMAIN UpperToLower THEN UpperToLower[s[i]] ELSE s[i]]

\* str.replace(old, new) for single characters.
replace(s, old, new) ==
   [i \in 1..Len(s) |-> IF s[i] = old THEN new ELSE s[i]]

\* The substring test "k in t".
Contains(k, t) ==
   \E i \in 0..(Len(t) - Len(k)) : \A j \in 1..Len(k) : t[i + j] = k[j]

(***************************************************************************)
(* config.py: the schema of the knowledge graph.                           *)
(***************************************************************************)
KG_SCHEMA_nodes ==
   << "DataProduct", "Satellite", "Sensor", "Parameter", "DataFormat",
      "ApplicationArea", "Service", "TimeResolution", "SpatialResolution", "Institution" >>

\* The relationship kinds, as the strings the store and the extractor compare.
PROVIDES ==
   <<"P","R","O","V","I","D","E","S">>

OBSERVED_BY ==
   <<"O","B","S","E","R","V","E","D","_","B","Y">>

FROM_SATELLITE ==
   <<"F","R","O","M","_","S","A","T","E","L","L","I","T","E">>

USES_SENSOR ==
   <<"U","S","E","S","_","S","E","N","S","O","R">>

AVAILABLE_IN_FORMAT ==
   <<"A","V","A","I","L","A","B","L","E","_","I","N","_","F","O","R","M","A","T">>

APPLICABLE_FOR ==
   <<"A","P","P","L","I","C","A","B","L","E","_","F","O","R">>

HAS_TIME_RESOLUTION ==
   <<"H","A","S","_","T","I","M","E","_","R","E","S","O","L","U","T","I","O","N">>

HAS_SPATIAL_RESOLUTION ==
   <<"H","A","S","_","S","P","A","T","I","A","L","_","R","E","S","O","L","U","T","I","O","N">>

OFFERS_SERVICE ==
   <<"O","F","F","E","R","S","_","S","E","R","V","I","C","E">>

PRODUCED_BY ==
   <<"P","R","O","D","U","C","E","D","_","B","Y">>

KG_SCHEMA_relationships ==
   << PROVIDES, OBSERVED_BY, FROM_SATELLITE, USES_SENSOR, AVAILABLE_IN_FORMAT,
      APPLICABLE_FOR, HAS_TIME_RESOLUTION, HAS_SPATIAL_RESOLUTION, OFFERS_SERVICE,
      PRODUCED_BY >>

Range(s) == {s[i] : i \in DOMAIN s}

known_entity_labels == Range(KG_SCHEMA_nodes)

known_relationship_types == KG_SCHEMA_relationships

(***************************************************************************)
(* nlu_processor.py: the keyword table, in the insertion order of the      *)
(* dictionary, which is the order the scan visits it.                      *)
(***************************************************************************)
mosdac_keywords ==
   << [keyword |-> <<"s","e","a"," ","s","u","r","f","a","c","e"," ","t","e","m","p","e","r","a","t","u","r","e">>,
       type_label |-> "DataProduct"],
      [keyword |-> <<"c","l","o","u","d"," ","t","o","p"," ","p","r","e","s","s","u","r","e">>,
       type_label |-> "DataProduct"],
      [keyword |-> <<"r","a","i","n","f","a","l","l"," ","d","a","t","a">>,
       type_label |-> "DataProduct"],
      [keyword |-> <<"h","u","m","i","d","i","t","y"," ","d","a","t","a">>,
       type_label |-> "DataProduct"],
      [keyword |-> <<"w","i","n","d"," ","s","p","e","e","d">>,
       type_label |-> "DataProduct"],
      [keyword |-> <<"v","e","g","e","t","a","t","i","o","n"," ","i","n","d","e","x">>,
       type_label |-> "DataProduct"],
      [keyword |-> <<"s","o","i","l"," ","m","o","i","s","t","u","r","e">>,
       type_label |-> "DataProduct"],
      [keyword |-> <<"o","z","o","n","e"," ","c","o","n","c","e","n","t","r","a","t","i","o","n">>,
       type_label |-> "DataProduct"],
      [keyword |-> <<"a","e","r","o","s","o","l"," ","o","p","t","i","c","a","l"," ","d","e","p","t","h">>,
       type_label |-> "DataProduct"],
      [keyword |-> <<"i","n","s","a","t","-","3","d">>,
       type_label |-> "Satellite"],
      [keyword |-> <<"i","n","s","a","t","-","3","d","r">>,
       type_label |-> "Satellite"],
      [keyword |-> <<"k","a","l","p","a","n","a","-","1">>,
       type_label |-> "Satellite"],
      [keyword |-> <<"o","c","e","a","n","s","a","t","-","2">>,
       type_label |-> "Satellite"],
      [keyword |-> <<"m","e","g","h","a","-","t","r","o","p","i","q","u","e","s">>,
       type_label |-> "Satellite"],
      [keyword |-> <<"s","c","a","t","s","a","t","-","1">>,
       type_label |-> "Satellite"],
      [keyword |-> <<"g","i","s","a","t","-","1">>,
       type_label |-> "Satellite"],
      [keyword |-> <<"i","m","a","g","e","r">>,
       type_label |-> "Sensor"],
      [keyword |-> <<"s","o","u","n","d","e","r">>,
       type_label |-> "Sensor"],
      [keyword |-> <<"s","c","a","t","t","e","r","o","m","e","t","e","r">>,
       type_label |-> "Sensor"],
      [keyword |-> <<"t","e","m","p","e","r","a","t","u","r","e">>,
       type_label |-> "Parameter"],
      [keyword |-> <<"p","r","e","s","s","u","r","e">>,
       type_label |-> "Parameter"],
      [keyword |-> <<"w","i","n","d">>,
       type_label |-> "Parameter"],
      [keyword |-> <<"h","u","m","i","d","i","t","y">>,
       type_label |-> "Parameter"],
      [keyword |-> <<"r","a","i","n","f","a","l","l">>,
       type_label |-> "Parameter"],
      [keyword |-> <<"o","z","o","n","e">>,
       type_label |-> "Parameter"],
      [keyword |-> <<"a","e","r","o","s","o","l">>,
       type_label |-> "Parameter"],
      [keyword |-> <<"n","e","t","c","d","f">>,
       type_label |-> "DataFormat"],
      [keyword |-> <<"h","d","f">>,
       type_label |-> "DataFormat"],
      [keyword |-> <<"j","p","e","g">>,
       type_label |-> "DataFormat"],
      [keyword |-> <<"g","e","o","t","i","f","f">>,
       type_label |-> "DataFormat"],
      [keyword |-> <<"c","y","c","l","o","n","e"," ","f","o","r","e","c","a","s","t","i","n","g">>,
       type_label |-> "ApplicationArea"],
      [keyword |-> <<"w","e","a","t","h","e","r"," ","f","o","r","e","c","a","s","t","i","n","g">>,
       type_label |-> "ApplicationArea"],
      [keyword |-> <<"c","l","i","m","a","t","e"," ","s","t","u","d","y">>,
       type_label |-> "ApplicationArea"],
      [keyword |-> <<"a","g","r","i","c","u","l","t","u","r","a","l"," ","m","o","n","i","t","o","r","i","n","g">>,
       type_label |-> "ApplicationArea"],
      [keyword |-> <<"o","c","e","a","n","o","g","r","a","p","h","y">>,
       type_label |-> "ApplicationArea"],
      [keyword |-> <<"a","t","m","o","s","p","h","e","r","i","c"," ","r","e","s","e","a","r","c","h">>,
       type_label |-> "ApplicationArea"],
      [keyword |-> <<"d","a","t","a"," ","d","o","w","n","l","o","a","d">>,
       type_label |-> "Service"],
      [keyword |-> <<"v","i","s","u","a","l","i","z","a","t","i","o","n"," ","t","o","o","l">>,
       type_label |-> "Service"],
      [keyword |-> <<"w","h","a","t"," ","d","a","t","a">>,
       type_label |-> "Query_DataProducts"],
      [keyword |-> <<"d","a","t","a"," ","o","n">>,
       type_label |-> "Query_DataProducts"],
      [keyword |-> <<"i","n","f","o","r","m","a","t","i","o","n"," ","a","b","o","u","t">>,
       type_label |-> "Query_Details"],
      [keyword |-> <<"d","e","t","a","i","l","s"," ","o","f">>,
       type_label |-> "Query_Details"],
      [keyword |-> <<"w","h","a","t"," ","i","s">>,
       type_label |-> "Query_Details_Object"],
      [keyword |-> <<"h","o","w"," ","t","o"," ","d","o","w","n","l","o","a","d">>,
       type_label |-> "Query_Download"],
      [keyword |-> <<"f","o","r","m","a","t"," ","o","f">>,
       type_label |-> "Query_Format"],
      [keyword |-> <<"t","i","m","e"," ","r","e","s","o","l","u","t","i","o","n">>,
       type_label |-> "Query_TimeResolution"],
      [keyword |-> <<"s","p","a","t","i","a","l"," ","r","e","s","o","l","u","t","i","o","n">>,
       type_label |-> "Query_SpatialResolution"],
      [keyword |-> <<"a","p","p","l","i","c","a","t","i","o","n","s"," ","o","f">>,
       type_label |-> "Query_Applications"],
      [keyword |-> <<"w","h","a","t"," ","s","e","r","v","i","c","e","s">>,
       type_label |-> "Query_Services"],
      [keyword |-> <<"s","u","m","m","a","r","i","z","e">>,
       type_label |-> "Query_Summarize"],
      [keyword |-> <<"s","u","m","m","a","r","i","z","e"," ","t","h","i","s">>,
       type_label |-> "Query_Summarize"],
      [keyword |-> <<"m","a","k","e"," ","i","t"," ","c","o","n","c","i","s","e">>,
       type_label |-> "Query_Summarize"],
      [keyword |-> <<"c","a","n"," ","y","o","u"," ","s","u","m","m","a","r","i","z","e">>,
       type_label |-> "Query_Summarize"],
      [keyword |-> <<"u","s","e"," ","c","a","s","e","s">>,
       type_label |-> "Query_UseCases"],
      [keyword |-> <<"a","p","p","l","i","c","a","t","i","o","n"," ","i","d","e","a","s">>,
       type_label |-> "Query_UseCases"],
      [keyword |-> <<"h","o","w"," ","c","a","n"," ","I"," ","u","s","e"," ","t","h","i","s">>,
       type_label |-> "Query_UseCases"] >>

\* The elements of s at the positions in keep, in the order of s.
AtPositions(s, keep) ==
   LET F[i \in 0..Len(s)] ==
          IF i = 0 THEN << >>
          ELSE IF i \in keep THEN Append(F[i - 1], s[i]) ELSE F[i - 1]
   IN  F[Len(s)]

(***************************************************************************)
(* Python dictionaries keep insertion order: a dictionary is a sequence    *)
(* of [key, value] entries; assigning to a key that is present keeps its   *)
(* position.                                                               *)
(***************************************************************************)
DictKeys(d) == {d[i].key : i \in DOMAIN d}

DictValues(d) == {d[i].value : i \in DOMAIN d}

DictGet(d, k, default) ==
   IF k \in DictKeys(d) THEN d[CHOOSE i \in DOMAIN d : d[i].key = k].value ELSE default

DictSet(d, k, v) ==
   IF k \in DictKeys(d)
   THEN [i \in DOMAIN d |-> IF d[i].key = k THEN [key |-> k, value |-> v] ELSE d[i]]
   ELSE Append(d, [key |-> k, value |-> v])

(***************************************************************************)
(* NLUProcessor.process_query.  doc_ents is what the named-entity          *)
(* recognizer returns for text.lower(): a sequence of spans [text, label_].*)
(***************************************************************************)
RetainedNERLabels == {"ORG", "PRODUCT", "LOC", "GPE", "NORP", "DATE"}

\* type_label.startswith("Query_"), over the labels of the table.
QueryLabels ==
   {"Query_DataProducts", "Query_Details", "Query_Details_Object", "Query_Download",
    "Query_Format", "Query_TimeResolution", "Query_SpatialResolution",
    "Query_Applications", "Query_Services", "Query_Summarize", "Query_UseCases"}

startswith_Query(type_label) == type_label \in QueryLabels

\* Variant of ner_entities: the label filter is left out.
ner_entities_unfiltered(doc_ents) ==
   [i \in DOMAIN doc_ents |->
      [label |-> doc_ents[i].label_, text |-> doc_ents[i].text, type |-> "NER"]]

\* The spans kept by the label filter, as candidate entities of type NER.
ner_entities(doc_ents) ==
   LET kept == SelectSeq(doc_ents, LAMBDA ent : ent.label_ \in RetainedNERLabels)
   IN  [i \in DOMAIN kept |-> [label |-> kept[i].label_, text |-> kept[i].text, type |-> "NER"]]

\* Variant of matched_keywords: the text is not lower-cased before the test.
matched_keywords_case_sensitive(text) ==
   SelectSeq(mosdac_keywords, LAMBDA e : Contains(e.keyword, text))

\* The entries of the table whose keyword occurs in text.lower(), in table order.
matched_keywords(text) ==
   LET lowered == lower(text)
   IN  SelectSeq(mosdac_keywords, LAMBDA e : Contains(e.keyword, lowered))

detect_intents(text) ==
   LET hits == SelectSeq(matched_keywords(text), LAMBDA e : startswith_Query(e.type_label))
   IN  [i \in DOMAIN hits |-> hits[i].type_label]

keyword_entities(text) ==
   LET hits == SelectSeq(matched_keywords(text),
                         LAMBDA e : /\ ~startswith_Query(e.type_label)
                                    /\ e.type_label \in known_entity_labels)
   IN  [i \in DOMAIN hits |-> [label |-> hits[i].type_label, text |-> hits[i].keyword,
                               type |-> "Keyword"]]

unclassified_keywords(text) ==
   LET hits == SelectSeq(matched_keywords(text),
                         LAMBDA e : /\ ~startswith_Query(e.type_label)
                                    /\ e.type_label \notin known_entity_labels)
   IN  [i \in DOMAIN hits |-> hits[i].keyword]

detect_relationships(text) ==
   LET lowered == lower(text)
   IN  SelectSeq(known_relationship_types,
                 LAMBDA rel_type : Contains(replace(lower(rel_type), "_", " "), lowered))

\* Variant of resolve_intent: the details signals are tested first.
resolve_intent_details_first(intents) ==
   LET has(q) == q \in Range(intents)
   IN  IF has("Query_Details") \/ has("Query_Details_Object") THEN "get_details"
       ELSE IF has("Query_Download") THEN "get_download_info"
       ELSE IF has("Query_Format") THEN "get_data_format"
       ELSE IF has("Query_TimeResolution") THEN "get_time_resolution"
       ELSE IF has("Query_SpatialResolution") THEN "get_spatial_resolution"
       ELSE IF has("Query_Applications") THEN "get_applications"
       ELSE IF has("Query_Services") THEN "get_services"
       ELSE IF has("Query_DataProducts") THEN "list_data_products"
       ELSE IF has("Query_Summarize") THEN "summarize_info"
       ELSE IF has("Query_UseCases") THEN "generate_use_cases"
       ELSE "general_query"

\* Variant of resolve_intent: the two signals answered by the generative
\* client are tested before the resolution signals.
resolve_intent_llm_before_resolution(intents) ==
   LET has(q) == q \in Range(intents)
   IN  IF has("Query_Download") THEN "get_download_info"
       ELSE IF has("Query_Format") THEN "get_data_format"
       ELSE IF has("Query_Summarize") THEN "summarize_info"
       ELSE IF has("Query_UseCases") THEN "generate_use_cases"
       ELSE IF has("Query_TimeResolution") THEN "get_time_resolution"
       ELSE IF has("Query_SpatialResolution") THEN "get_spatial_resolution"
       ELSE IF has("Query_Applications") THEN "get_applications"
       ELSE IF has("Query_Services") THEN "get_services"
       ELSE IF has("Query_DataProducts") THEN "list_data_products"
       ELSE IF has("Query_Details") \/ has("Query_Details_Object") THEN "get_details"
       ELSE "general_query"

\* The chain of if/elif over the intent signals, then the entity upgrade.
resolve_intent(intents) ==
   LET has(q) == q \in Range(intents)
   IN  IF has("Query_Download") THEN "get_download_info"
       ELSE IF has("Query_Format") THEN "get_data_format"
       ELSE IF has("Query_TimeResolution") THEN "get_time_resolution"
       ELSE IF has("Query_SpatialResolution") THEN "get_spatial_resolution"
       ELSE IF has("Query_Applications") THEN "get_applications"
       ELSE IF has("Query_Services") THEN "get_services"
       ELSE IF has("Query_DataProducts") THEN "list_data_products"
       ELSE IF has("Query_Summarize") THEN "summarize_info"
       ELSE IF has("Query_UseCases") THEN "generate_use_cases"
       ELSE IF has("Query_Details") \/ has("Query_Details_Object") THEN "get_details"
       ELSE "general_query"

\* Variant of upgrade_intent: any candidate entity upgrades, whatever its label.
upgrade_intent_any_entity(main_intent, entities) ==
   IF main_intent = "general_query" /\ entities # << >>
   THEN "get_details"
   ELSE main_intent

\* The upgrade of general_query when a candidate with a schema label exists.
upgrade_intent(main_intent, entities) ==
   IF /\ main_intent = "general_query"
      /\ \E i \in DOMAIN entities : \/ entities[i].label \in Range(KG_SCHEMA_nodes)
                                    \/ entities[i].type \in Range(KG_SCHEMA_nodes)
   THEN "get_details"
   ELSE main_intent

\* Variant of refine_step: a label that is already mapped keeps its first text.
refine_step_first_wins(unique_entities, ent) ==
   IF ent.label \in known_entity_labels
   THEN IF ent.label \in DictKeys(unique_entities)
        THEN unique_entities
        ELSE DictSet(unique_entities, ent.label, ent.text)
   ELSE IF ent.type = "NER" /\ ent.text \notin DictValues(unique_entities)
        THEN LET is_specific_overlap ==
                    \E i \in DOMAIN unique_entities :
                       /\ Contains(unique_entities[i].value, ent.text)
                       /\ unique_entities[i].key \in known_entity_labels
             IN  IF ~is_specific_overlap
                 THEN DictSet(unique_entities, ent.label, ent.text)
                 ELSE unique_entities
        ELSE unique_entities

\* One pass of the loop that builds unique_entities.
refine_step(unique_entities, ent) ==
   IF ent.label \in known_entity_labels
   THEN DictSet(unique_entities, ent.label, ent.text)
   ELSE IF ent.type = "NER" /\ ent.text \notin DictValues(unique_entities)
        THEN LET is_specific_overlap ==
                    \E i \in DOMAIN unique_entities :
                       /\ Contains(unique_entities[i].value, ent.text)
                       /\ unique_entities[i].key \in known_entity_labels
             IN  IF ~is_specific_overlap
                 THEN DictSet(unique_entities, ent.label, ent.text)
                 ELSE unique_entities
        ELSE unique_entities

RECURSIVE refine_entities(_, _)
refine_entities(entities, unique_entities) ==
   IF entities = << >>
   THEN unique_entities
   ELSE refine_entities(Tail(entities), refine_step(unique_entities, Head(entities)))

process_query(text, doc_ents) ==
   LET entities == ner_entities(doc_ents) \o keyword_entities(text)
   IN  [entities |-> refine_entities(entities, << >>),
        found_relationships |-> detect_relationships(text),
        keywords |-> unclassified_keywords(text),
        main_intent |-> upgrade_intent(resolve_intent(detect_intents(text)), entities),
        original_query |-> text,
        raw_entities |-> entities]

(***************************************************************************)
(* The utterances and recognizer outputs the model is explored on.         *)
(***************************************************************************)
MaxFrags == 2

MaxEnts == 2

Fragments ==
   << <<"H","o","w"," ","t","o"," ","d","o","w","n","l","o","a","d">>,
      <<"f","o","r","m","a","t"," ","o","f">>,
      <<"t","i","m","e"," ","r","e","s","o","l","u","t","i","o","n">>,
      <<"s","p","a","t","i","a","l"," ","r","e","s","o","l","u","t","i","o","n">>,
      <<"a","p","p","l","i","c","a","t","i","o","n","s"," ","o","f">>,
      <<"w","h","a","t"," ","s","e","r","v","i","c","e","s">>,
      <<"W","h","a","t"," ","d","a","t","a">>,
      <<"s","u","m","m","a","r","i","z","e"," ","t","h","i","s">>,
      <<"u","s","e"," ","c","a","s","e","s">>,
      <<"i","n","f","o","r","m","a","t","i","o","n"," ","a","b","o","u","t">>,
      <<"H","o","w"," ","c","a","n"," ","I"," ","u","s","e"," ","t","h","i","s">>,
      <<"r","a","i","n","f","a","l","l"," ","d","a","t","a">>,
      <<"S","e","a"," ","S","u","r","f","a","c","e"," ","T","e","m","p","e","r","a","t","u","r","e"," ","d","a","t","a">>,
      <<"I","N","S","A","T","-","3","D","R">>,
      <<"h","e","l","l","o"," ","M","O","S","D","A","C">>,
      <<"T","e","l","l"," ","m","e"," ","a","b","o","u","t"," ","s","e","a"," ","s","u","r","f","a","c","e"," ","t","e","m","p","e","r","a","t","u","r","e"," ","d","a","t","a">>,
      <<"N","e","t","C","D","F">> >>

RECURSIVE Join(_)
Join(fs) ==
   IF fs = << >> THEN << >>
   ELSE IF Len(fs) = 1 THEN Fragments[fs[1]]
   ELSE Fragments[fs[1]] \o <<" ">> \o Join(Tail(fs))

FragSeqs == UNION {[1..n -> DOMAIN Fragments] : n \in 0..MaxFrags}

Utterances == {Join(fs) : fs \in FragSeqs}

\* Labels the recognizer may give a span; PERSON is one the filter drops.
SpacyLabels == {"ORG", "PERSON"}

\* The fragments the recognizer may tag as a named entity.
NamedFragments == {13, 15, 16}

\* The recognizer sees text.lower().  Its spans do not overlap and come in
\* the order of the text: a tagging gives a label to at most MaxEnts of the
\* named fragments of the utterance.
Taggings(fs) ==
   UNION {[S -> SpacyLabels] :
             S \in {T \in SUBSET {i \in DOMAIN fs : fs[i] \in NamedFragments} :
                       Cardinality(T) <= MaxEnts}}

DocEnts(fs) ==
   {AtPositions([i \in DOMAIN fs |->
                   [label_ |-> IF i \in DOMAIN tagging THEN tagging[i] ELSE "",
                    text |-> lower(Fragments[fs[i]])]],
                DOMAIN tagging) : tagging \in Taggings(fs)}

(***************************************************************************)
(* Rendered text.  A string built by an f-string is a sequence of pieces,  *)
(* each a literal of the source followed by one interpolated value (a      *)
(* sequence of characters, empty when the literal stands alone).           *)
(***************************************************************************)
P(lit, val) == <<[lit |-> lit, val |-> val]>>

L(lit) == P(lit, << >>)

\* str(None), as an f-string renders a null value.
NoneStr ==
   <<"N","o","n","e">>

Fmt(opt) == IF opt = None THEN NoneStr ELSE opt[1]

RECURSIVE JoinWith(_, _)
\* sep.join(parts)
JoinWith(sep, parts) ==
   IF parts = << >> THEN << >>
   ELSE IF Len(parts) = 1 THEN parts[1]
   ELSE parts[1] \o sep \o JoinWith(sep, Tail(parts))

LowerToUpper ==
   [c \in {UpperToLower[u] : u \in DOMAIN UpperToLower} |->
      CHOOSE u \in DOMAIN UpperToLower : UpperToLower[u] = c]

IsCased(c) == c \in DOMAIN UpperToLower \/ c \in DOMAIN LowerToUpper

\* str.title(): a cased character is upper-cased after an uncased one (or
\* at the start) and lower-cased after a cased one.
title(s) ==
   [i \in 1..Len(s) |->
      IF i = 1 \/ ~IsCased(s[i - 1])
      THEN IF s[i] \in DOMAIN LowerToUpper THEN LowerToUpper[s[i]] ELSE s[i]
      ELSE IF s[i] \in DOMAIN UpperToLower THEN UpperToLower[s[i]] ELSE s[i]]

\* The characters of an entity label.
LabelStr ==
   ("DataProduct" :> <<"D","a","t","a","P","r","o","d","u","c","t">>) @@
   ("Satellite" :> <<"S","a","t","e","l","l","i","t","e">>) @@
   ("Sensor" :> <<"S","e","n","s","o","r">>) @@
   ("Parameter" :> <<"P","a","r","a","m","e","t","e","r">>) @@
   ("DataFormat" :> <<"D","a","t","a","F","o","r","m","a","t">>) @@
   ("ApplicationArea" :> <<"A","p","p","l","i","c","a","t","i","o","n","A","r","e","a">>) @@
   ("Service" :> <<"S","e","r","v","i","c","e">>) @@
   ("TimeResolution" :> <<"T","i","m","e","R","e","s","o","l","u","t","i","o","n">>) @@
   ("SpatialResolution" :> <<"S","p","a","t","i","a","l","R","e","s","o","l","u","t","i","o","n">>) @@
   ("Institution" :> <<"I","n","s","t","i","t","u","t","i","o","n">>)

k_name ==
   <<"n","a","m","e">>

k_description ==
   <<"d","e","s","c","r","i","p","t","i","o","n">>

k_link ==
   <<"l","i","n","k">>

MOSDAC ==
   <<"M","O","S","D","A","C">>

(***************************************************************************)
(* The graph the store holds: nodes in creation order, each [label,        *)
(* props], and relationships [from, to, type] between node positions.      *)
(***************************************************************************)
node_get(node, key) ==
   IF key \in DictKeys(node) THEN Some(DictGet(node, key, << >>)) ELSE None

\* COLLECT(DISTINCT ...): the first occurrence of each element.
Distinct(s) ==
   AtPositions(s, {i \in DOMAIN s : \A j \in 1..(i - 1) : s[j] # s[i]})

\* WHERE toLower(n.name) CONTAINS toLower($entity_name)
name_contains(n, entity_name) ==
   /\ node_get(n.props, k_name) # None
   /\ Contains(lower(entity_name), lower(node_get(n.props, k_name)[1]))

Rel(type, target_name, target_label) ==
   [target_label |-> target_label, target_name |-> target_name, type |-> type]

\* OPTIONAL MATCH (n)-[r]-(m) with the COLLECT of the RETURN clause: the
\* relationships of node i in either direction; a node without neighbours
\* gets one map of nulls.
collect_relationships(graph, i) ==
   LET incident == AtPositions(graph.rels,
                      {r \in DOMAIN graph.rels :
                          graph.rels[r].from = i \/ graph.rels[r].to = i})
       other(r) == graph.nodes[IF r.from = i THEN r.to ELSE r.from]
   IN  IF incident = << >>
       THEN << Rel(None, None, None) >>
       ELSE Distinct([k \in DOMAIN incident |->
                        Rel(Some(incident[k].type),
                            node_get(other(incident[k]).props, k_name),
                            Some(LabelStr[other(incident[k]).label]))])

\* The rows of the query of get_entity_details, before LIMIT.
details_rows(graph, entity_name, entity_label) ==
   LET hits == {i \in DOMAIN graph.nodes :
                   /\ entity_label = None \/ graph.nodes[i].label = entity_label[1]
                   /\ name_contains(graph.nodes[i], entity_name)}
   IN  AtPositions([i \in DOMAIN graph.nodes |->
                      [n |-> graph.nodes[i].props,
                       relationships |-> collect_relationships(graph, i)]],
                   hits)

\* The rows of the query of get_related_entities with a relationship type
\* and a target label.
related_rows(graph, entity_name, entity_label, relationship_type, target_label) ==
   LET hits == {r \in DOMAIN graph.rels :
                   /\ graph.nodes[graph.rels[r].from].label = entity_label
                   /\ name_contains(graph.nodes[graph.rels[r].from], entity_name)
                   /\ graph.rels[r].type = relationship_type
                   /\ graph.nodes[graph.rels[r].to].label = target_label}
   IN  AtPositions([r \in DOMAIN graph.rels |->
                      [related_label |-> graph.nodes[graph.rels[r].to].label,
                       related_name |-> node_get(graph.nodes[graph.rels[r].to].props, k_name),
                       relationship_type |-> graph.rels[r].type]],
                   hits)

\* The rows of MATCH (p:DataProduct) RETURN p.name, p.description, before LIMIT.
product_rows(graph) ==
   AtPositions([i \in DOMAIN graph.nodes |->
                  [description |-> node_get(graph.nodes[i].props, k_description),
                   name |-> node_get(graph.nodes[i].props, k_name)]],
               {i \in DOMAIN graph.nodes : graph.nodes[i].label = "DataProduct"})

\* LIMIT n
Limit(rows, n) == SubSeq(rows, 1, IF Len(rows) < n THEN Len(rows) ELSE n)

(***************************************************************************)
(* kg_manager.py, the read side.  The graph server is outside the          *)
(* repository: kg = [graph, raises, reconnects] is the graph it holds and  *)
(* what happens to the one query of a call: whether _connect() obtains a   *)
(* driver when none is held and whether running the query raises (the      *)
(* server is down, or it rejects the text of the query).  rows are the     *)
(* rows the server computes when it runs the query.  A query is logged as  *)
(* [entity_name, op, pattern, records].                                    *)
(***************************************************************************)
Driver == Some("driver")

\* KnowledgeGraphManager._execute_query
execute_query(driver, kg, rows) ==
   LET active == IF driver = None /\ kg.reconnects THEN Driver ELSE driver
   IN  [driver  |-> active,
        records |-> IF active = None THEN << >>
                    ELSE IF kg.raises THEN << >>
                    ELSE rows]

\* KnowledgeGraphManager.get_entity_details.  The pattern sent for a
\* labelled lookup is the literal text (n:{label}), with the label as a
\* query parameter.
get_entity_details(driver, kg, entity_name, entity_label) ==
   LET match_clause == IF entity_label # None THEN "(n:{label})" ELSE "(n)"
       res == execute_query(driver, kg,
                            Limit(details_rows(kg.graph, entity_name, entity_label), 1))
   IN  [details |-> IF res.records # << >>
                    THEN Some([node |-> res.records[1].n,
                               relationships |-> res.records[1].relationships])
                    ELSE None,
        driver  |-> res.driver,
        query   |-> [entity_name |-> entity_name, op |-> "get_entity_details",
                     pattern |-> match_clause, records |-> res.records]]

\* KnowledgeGraphManager.get_related_entities
get_related_entities(driver, kg, entity_name, entity_label, relationship_type, target_label) ==
   LET res == execute_query(driver, kg,
                            related_rows(kg.graph, entity_name, entity_label,
                                         relationship_type, target_label))
   IN  [driver  |-> res.driver,
        query   |-> [entity_name |-> entity_name, op |-> "get_related_entities",
                     pattern |-> entity_label, records |-> res.records],
        related |-> [i \in DOMAIN res.records |->
                       [label |-> res.records[i].related_label,
                        name  |-> res.records[i].related_name,
                        type  |-> res.records[i].relationship_type]]]

(***************************************************************************)
(* kg_manager.py, the write side.  MERGE matches the nodes of the label    *)
(* that carry every given property with the given value, and creates a     *)
(* node with exactly the given properties when none matches.               *)
(***************************************************************************)
\* The pattern (n:label {k: $k, ...}) of add_entity on one node.
merge_matches(node, label, properties) ==
   /\ node.label = label
   /\ \A i \in DOMAIN properties :
         node_get(node.props, properties[i].key) = Some(properties[i].value)

\* MERGE (n:label {properties})
merge_node(graph, label, properties) ==
   IF \E i \in DOMAIN graph.nodes : merge_matches(graph.nodes[i], label, properties)
   THEN graph
   ELSE [graph EXCEPT !.nodes = Append(@, [label |-> label, props |-> properties])]

\* The rows of MERGE (n:label {properties}) RETURN n, on the graph after it.
merge_rows(graph, label, properties) ==
   LET after == merge_node(graph, label, properties)
   IN  AtPositions([i \in DOMAIN after.nodes |-> [n |-> after.nodes[i].props]],
                   {i \in DOMAIN after.nodes :
                       merge_matches(after.nodes[i], label, properties)})

\* The server keeps the name unique for the labels in unique: it refuses a
\* MERGE that would create a second node of such a label under a name.
violates_unique(graph, unique, label, properties) ==
   /\ label \in unique
   /\ node_get(properties, k_name) # None
   /\ ~\E i \in DOMAIN graph.nodes : merge_matches(graph.nodes[i], label, properties)
   /\ \E i \in DOMAIN graph.nodes :
         /\ graph.nodes[i].label = label
         /\ node_get(graph.nodes[i].props, k_name) = node_get(properties, k_name)

\* KnowledgeGraphManager.add_entity: the graph is the one the server holds
\* after the call; nothing is written without a driver or when the query
\* raises.
add_entity(driver, kg, label, properties) ==
   LET res == execute_query(driver, kg, merge_rows(kg.graph, label, properties))
   IN  [driver |-> res.driver,
        graph  |-> IF res.records # << >>
                   THEN merge_node(kg.graph, label, properties)
                   ELSE kg.graph,
        query  |-> [entity_name |-> DictGet(properties, k_name, << >>),
                    op |-> "add_entity", pattern |-> label, records |-> res.records],
        result |-> res.records]

\* MATCH (from:from_label {..}), (to:to_label {..}): the pairs of positions.
relationship_ends(graph, from_label, from_props, to_label, to_props) ==
   {<<f, t>> \in (DOMAIN graph.nodes) \X (DOMAIN graph.nodes) :
       /\ merge_matches(graph.nodes[f], from_label, from_props)
       /\ merge_matches(graph.nodes[t], to_label, to_props)}

\* MERGE (from)-[r:rel_type]->(to) for every matched pair.
RECURSIVE merge_relationships(_, _, _)
merge_relationships(graph, ends, rel_type) ==
   IF ends = { }
   THEN graph
   ELSE LET e == CHOOSE x \in ends :
                    \A y \in ends : x[1] < y[1] \/ (x[1] = y[1] /\ x[2] <= y[2])
            r == [from |-> e[1], to |-> e[2], type |-> rel_type]
            present == \E k \in DOMAIN graph.rels : graph.rels[k] = r
        IN  merge_relationships(
               IF present THEN graph ELSE [graph EXCEPT !.rels = Append(@, r)],
               ends \ {e}, rel_type)

\* KnowledgeGraphManager.add_relationship, without relationship properties.
add_relationship(driver, kg, from_label, from_props, to_label, to_props, rel_type) ==
   LET ends == relationship_ends(kg.graph, from_label, from_props, to_label, to_props)
       after == merge_relationships(kg.graph, ends, rel_type)
       rows == AtPositions([k \in DOMAIN after.rels |-> [r |-> after.rels[k]]],
                           {k \in DOMAIN after.rels :
                               /\ <<after.rels[k].from, after.rels[k].to>> \in ends
                               /\ after.rels[k].type = rel_type})
       res == execute_query(driver, kg, rows)
   IN  [driver |-> res.driver,
        graph  |-> IF res.records # << >> THEN after ELSE kg.graph,
        query  |-> [entity_name |-> DictGet(from_props, k_name, << >>),
                    op |-> "add_relationship", pattern |-> from_label,
                    records |-> res.records],
        result |-> res.records]

\* The graph the server holds after a logged query ran: the read queries
\* leave it as it was, MERGE leaves the node it returned.
graph_after_query(graph, query) ==
   IF query.op = "add_entity" /\ query.records # << >>
   THEN merge_node(graph, query.pattern, query.records[1].n)
   ELSE graph

RECURSIVE graph_after(_, _)
graph_after(graph, queries) ==
   IF queries = << >>
   THEN graph
   ELSE graph_after(graph_after_query(graph, Head(queries)), Tail(queries))

(***************************************************************************)
(* bot_logic.py: ISROBot._call_gemini_llm.  http is the outcome of         *)
(* requests.post and of decoding the answer.                               *)
(***************************************************************************)
\* The methods of a Python list.
list_methods ==
   {"append", "clear", "copy", "count", "extend", "index", "insert", "pop",
    "remove", "reverse", "sort"}

GeneratedText ==
   <<"o","k">>

ConnectApology ==
   "I'm having trouble connecting to the generative AI right now. Please try again later."

NoResponseApology == "I couldn't generate a response from the AI at this moment."

InternalApology == "An internal error occurred while processing your request."

\* The result is [raised, text]: raised is the exception that leaves the
\* function ("" when it returns), text the returned string.
call_gemini_llm(prompt, http) ==
   IF "push" \notin list_methods
   THEN \* chat_history.push(...), before the try block
        [raised |-> "AttributeError", text |-> << >>]
   ELSE IF http \in {"Timeout", "ConnectionError", "HTTPError"}
   THEN [raised |-> "", text |-> L(ConnectApology)]
   ELSE IF http = "KeyError"
   THEN [raised |-> "", text |-> L(InternalApology)]
   ELSE IF http = "candidates"
   THEN [raised |-> "", text |-> P("", GeneratedText)]
   ELSE [raised |-> "", text |-> L(NoResponseApology)]

(***************************************************************************)
(* bot_logic.py: ISROBot.generate_response.                                *)
(***************************************************************************)
DefaultResponse ==
   "I'm sorry, I couldn't find information on that. Could you please rephrase or ask about specific MOSDAC data products, satellites, or services?"

\* The sparkles character that opens this text and the two LLM answers is
\* written "*".
OfferText ==
   "\n\n* Would you like me to summarize this, or generate use case ideas for this data?"

PleaseSpecifyUseCases ==
   "Please specify which data product, satellite, or parameter you'd like use case ideas for."

NothingToSummarize ==
   "I don't have a recent detailed piece of information to summarize. Please ask me about a specific data product or satellite first."

\* Variant of find_primary_entity: the loop over the preferred labels does
\* not stop at the first one present, so the last one present is taken.
find_primary_entity_last_preferred(entities_dict, preferred_labels) ==
   LET preferred == SelectSeq(preferred_labels, LAMBDA label : label \in DictKeys(entities_dict))
       in_schema == SelectSeq(entities_dict, LAMBDA e : e.key \in Range(KG_SCHEMA_nodes))
   IN  IF preferred # << >>
       THEN [label |-> Some(preferred[Len(preferred)]),
             name  |-> Some(DictGet(entities_dict, preferred[Len(preferred)], << >>))]
       ELSE IF in_schema # << >>
       THEN [label |-> Some(in_schema[1].key), name |-> Some(in_schema[1].value)]
       ELSE [label |-> None, name |-> None]

\* find_primary_entity, the helper nested in generate_response
find_primary_entity(entities_dict, preferred_labels) ==
   LET preferred == SelectSeq(preferred_labels, LAMBDA label : label \in DictKeys(entities_dict))
       in_schema == SelectSeq(entities_dict, LAMBDA e : e.key \in Range(KG_SCHEMA_nodes))
   IN  IF preferred # << >>
       THEN [label |-> Some(preferred[1]),
             name  |-> Some(DictGet(entities_dict, preferred[1], << >>))]
       ELSE IF in_schema # << >>
       THEN [label |-> Some(in_schema[1].key), name |-> Some(in_schema[1].value)]
       ELSE [label |-> None, name |-> None]

\* What one call of generate_response leaves behind: the exception that
\* left it ("" when it returned), the returned text, the memory slot, the
\* driver, the prompts passed to _call_gemini_llm, the queries issued and
\* the entity find_primary_entity resolved.
Outcome(raised, response_text, content, name, driver, prompts, queries, primary) ==
   [content |-> content, driver |-> driver, kg_queries |-> queries,
    llm_prompts |-> prompts, name |-> name, primary |-> primary,
    raised |-> raised, response_text |-> response_text]

\* One relationship sentence of the get_details branch: [raised, line].
render_relationship(rel) ==
   LET line(s) == [line |-> s, raised |-> ""]
       attribute_error == [line |-> << >>, raised |-> "AttributeError"]
   IN  IF rel.type = Some(FROM_SATELLITE)
       THEN line(P("  - It is derived from the ", Fmt(rel.target_name)) \o L(" satellite."))
       ELSE IF rel.type = Some(PROVIDES)
       THEN IF rel.target_name = None THEN attribute_error
            ELSE line(P("  - It provides data on ", lower(rel.target_name[1])) \o L("."))
       ELSE IF rel.type = Some(AVAILABLE_IN_FORMAT)
       THEN line(P("  - It is available in ", Fmt(rel.target_name)) \o L(" format."))
       ELSE IF rel.type = Some(APPLICABLE_FOR)
       THEN IF rel.target_name = None THEN attribute_error
            ELSE line(P("  - It is applicable for ", lower(rel.target_name[1])) \o L("."))
       ELSE IF rel.type = Some(USES_SENSOR)
       THEN line(P("  - It uses the ", Fmt(rel.target_name)) \o L(" sensor."))
       ELSE IF rel.type = Some(PRODUCED_BY)
       THEN line(P("  - It is produced by ", Fmt(rel.target_name)) \o L("."))
       ELSE IF rel.type = None THEN attribute_error
       ELSE line(P("  - Related to ", Fmt(rel.target_name))
                 \o P(" (", Fmt(rel.target_label))
                 \o P(") via ", lower(replace(rel.type[1], "_", " "))) \o L("."))

RECURSIVE render_relationships(_)
\* The loop over details['relationships']: [raised, lines].
render_relationships(rels) ==
   IF rels = << >> THEN [lines |-> << >>, raised |-> ""]
   ELSE LET first == render_relationship(Head(rels))
            rest == render_relationships(Tail(rels))
        IN  IF first.raised # "" THEN [lines |-> << >>, raised |-> first.raised]
            ELSE IF rest.raised # "" THEN rest
            ELSE [lines |-> <<first.line>> \o rest.lines, raised |-> ""]

\* The lines for the properties other than name and description.
property_lines(node) ==
   LET others == SelectSeq(node, LAMBDA e : e.key \notin {k_name, k_description})
   IN  [i \in DOMAIN others |->
          P("- ", title(replace(others[i].key, "_", " "))) \o P(": ", others[i].value)]

\* Variant of handle_get_details: a subject the store does not know is
\* added to it.
handle_get_details_learns(entities, content, name, driver, kg) ==
   LET primary == find_primary_entity(entities,
                     <<"DataProduct", "Satellite", "Sensor", "Parameter",
                       "ApplicationArea", "Service", "Institution">>)
   IN  IF Truthy(primary.name)
       THEN LET q == get_entity_details(driver, kg, primary.name[1], primary.label)
            IN  IF q.details # None
                THEN LET node == q.details[1].node
                         shown_name == IF k_name \in DictKeys(node)
                                       THEN DictGet(node, k_name, << >>)
                                       ELSE primary.name[1]
                         description_content == node_get(node, k_description)
                         content1 == IF Truthy(description_content)
                                     THEN description_content ELSE None
                         name1 == IF Truthy(description_content)
                                  THEN Some(shown_name) ELSE None
                         rels == render_relationships(q.details[1].relationships)
                         response_parts ==
                            <<P("Here's what I know about ", shown_name) \o L(":")>>
                            \o (IF Truthy(description_content)
                                THEN <<P("- Description: ", description_content[1])>>
                                ELSE << >>)
                            \o property_lines(node)
                            \o (IF q.details[1].relationships # << >>
                                THEN <<L("\nRelated Information:")>> \o rels.lines
                                ELSE << >>)
                     IN  IF rels.raised # ""
                         THEN Outcome(rels.raised, << >>, content1, name1, q.driver,
                                      << >>, <<q.query>>, primary)
                         ELSE Outcome("", JoinWith(L("\n"), response_parts)
                                          \o (IF Truthy(content1) THEN L(OfferText) ELSE << >>),
                                      content1, name1, q.driver, << >>, <<q.query>>, primary)
                ELSE LET w == add_entity(q.driver, kg, primary.label[1],
                                         <<[key |-> k_name, value |-> primary.name[1]]>>)
                     IN  Outcome("", P("I couldn't find detailed information about '", primary.name[1])
                                     \o L("'. It might not be in my knowledge base yet."),
                                 None, None, w.driver, << >>, <<q.query, w.query>>, primary)
       ELSE Outcome("", L("Please specify which MOSDAC data product, satellite, or service you'd like to know about."),
                    None, None, driver, << >>, << >>, primary)

\* Variant of handle_get_details: the name is written to the slot after the
\* relationships are rendered.
handle_get_details_name_after_rendering(entities, content, name, driver, kg) ==
   LET primary == find_primary_entity(entities,
                     <<"DataProduct", "Satellite", "Sensor", "Parameter",
                       "ApplicationArea", "Service", "Institution">>)
   IN  IF Truthy(primary.name)
       THEN LET q == get_entity_details(driver, kg, primary.name[1], primary.label)
            IN  IF q.details # None
                THEN LET node == q.details[1].node
                         shown_name == IF k_name \in DictKeys(node)
                                       THEN DictGet(node, k_name, << >>)
                                       ELSE primary.name[1]
                         description_content == node_get(node, k_description)
                         content1 == IF Truthy(description_content)
                                     THEN description_content ELSE None
                         name1 == IF Truthy(description_content)
                                  THEN Some(shown_name) ELSE None
                         rels == render_relationships(q.details[1].relationships)
                         response_parts ==
                            <<P("Here's what I know about ", shown_name) \o L(":")>>
                            \o (IF Truthy(description_content)
                                THEN <<P("- Description: ", description_content[1])>>
                                ELSE << >>)
                            \o property_lines(node)
                            \o (IF q.details[1].relationships # << >>
                                THEN <<L("\nRelated Information:")>> \o rels.lines
                                ELSE << >>)
                     IN  IF rels.raised # ""
                         THEN Outcome(rels.raised, << >>, content1, name, q.driver,
                                      << >>, <<q.query>>, primary)
                         ELSE Outcome("", JoinWith(L("\n"), response_parts)
                                          \o (IF Truthy(content1) THEN L(OfferText) ELSE << >>),
                                      content1, name1, q.driver, << >>, <<q.query>>, primary)
                ELSE Outcome("", P("I couldn't find detailed information about '", primary.name[1])
                                 \o L("'. It might not be in my knowledge base yet."),
                             None, None, q.driver, << >>, <<q.query>>, primary)
       ELSE Outcome("", L("Please specify which MOSDAC data product, satellite, or service you'd like to know about."),
                    None, None, driver, << >>, << >>, primary)

handle_get_details(entities, content, name, driver, kg) ==
   LET primary == find_primary_entity(entities,
                     <<"DataProduct", "Satellite", "Sensor", "Parameter",
                       "ApplicationArea", "Service", "Institution">>)
   IN  IF Truthy(primary.name)
       THEN LET q == get_entity_details(driver, kg, primary.name[1], primary.label)
            IN  IF q.details # None
                THEN LET node == q.details[1].node
                         shown_name == IF k_name \in DictKeys(node)
                                       THEN DictGet(node, k_name, << >>)
                                       ELSE primary.name[1]
                         description_content == node_get(node, k_description)
                         content1 == IF Truthy(description_content)
                                     THEN description_content ELSE None
                         name1 == IF Truthy(description_content)
                                  THEN Some(shown_name) ELSE None
                         rels == render_relationships(q.details[1].relationships)
                         response_parts ==
                            <<P("Here's what I know about ", shown_name) \o L(":")>>
                            \o (IF Truthy(description_content)
                                THEN <<P("- Description: ", description_content[1])>>
                                ELSE << >>)
                            \o property_lines(node)
                            \o (IF q.details[1].relationships # << >>
                                THEN <<L("\nRelated Information:")>> \o rels.lines
                                ELSE << >>)
                     IN  IF rels.raised # ""
                         THEN Outcome(rels.raised, << >>, content1, name1, q.driver,
                                      << >>, <<q.query>>, primary)
                         ELSE Outcome("", JoinWith(L("\n"), response_parts)
                                          \o (IF Truthy(content1) THEN L(OfferText) ELSE << >>),
                                      content1, name1, q.driver, << >>, <<q.query>>, primary)
                ELSE Outcome("", P("I couldn't find detailed information about '", primary.name[1])
                                 \o L("'. It might not be in my knowledge base yet."),
                             None, None, q.driver, << >>, <<q.query>>, primary)
       ELSE Outcome("", L("Please specify which MOSDAC data product, satellite, or service you'd like to know about."),
                    None, None, driver, << >>, << >>, primary)

handle_list_data_products(driver, kg) ==
   LET res == execute_query(driver, kg, Limit(product_rows(kg.graph), 5))
       query == [entity_name |-> << >>, op |-> "_execute_query",
                 pattern |-> "(p:DataProduct)", records |-> res.records]
       bullets == [i \in DOMAIN res.records |-> P("- ", Fmt(res.records[i].name)) \o L("\n")]
   IN  Outcome("",
               IF res.records # << >>
               THEN L("MOSDAC provides various data products, including:\n")
                    \o JoinWith(<< >>, bullets)
                    \o L("You can ask for more details about a specific product, e.g., 'Tell me about sea surface temperature data'.")
               ELSE L("I couldn't find a list of data products. The knowledge graph might be empty or the query needs refinement."),
               None, None, res.driver, << >>, <<query>>, [label |-> None, name |-> None])

\* ', '.join(names): a TypeError when a name is None.
joinable(related) == \A i \in DOMAIN related : related[i].name # None

comma_join(related) ==
   JoinWith(L(", "), [i \in DOMAIN related |-> P("", related[i].name[1])])

\* Variant of handle_get_data_format: without a product in the utterance,
\* the formats of any data product are looked up.
handle_get_data_format_any_product(entities, content, name, driver, kg) ==
   LET found == find_primary_entity(entities, <<"DataProduct">>)
       primary == IF Truthy(found.name)
                  THEN found
                  ELSE [label |-> Some("DataProduct"), name |-> Some(<<"d","a","t","a">>)]
       q == get_related_entities(driver, kg, primary.name[1], primary.label[1],
                                 AVAILABLE_IN_FORMAT, "DataFormat")
   IN  IF q.related # << >> /\ ~joinable(q.related)
       THEN Outcome("TypeError", << >>, content, name, q.driver,
                    << >>, <<q.query>>, primary)
       ELSE Outcome("",
               IF q.related # << >>
               THEN P("The data for ", primary.name[1])
                    \o L(" is typically available in the following formats: ")
                    \o comma_join(q.related) \o L(".")
               ELSE P("I don't have information on the specific data format for ", primary.name[1])
                    \o L("."),
               None, None, q.driver, << >>, <<q.query>>, primary)

handle_get_data_format(entities, content, name, driver, kg) ==
   LET primary == find_primary_entity(entities, <<"DataProduct">>)
   IN  IF Truthy(primary.name)
       THEN LET q == get_related_entities(driver, kg, primary.name[1], primary.label[1],
                                          AVAILABLE_IN_FORMAT, "DataFormat")
            IN  IF q.related # << >> /\ ~joinable(q.related)
                THEN Outcome("TypeError", << >>, content, name, q.driver,
                             << >>, <<q.query>>, primary)
                ELSE Outcome("",
                        IF q.related # << >>
                        THEN P("The data for ", primary.name[1])
                             \o L(" is typically available in the following formats: ")
                             \o comma_join(q.related) \o L(".")
                        ELSE P("I don't have information on the specific data format for ", primary.name[1])
                             \o L("."),
                        None, None, q.driver, << >>, <<q.query>>, primary)
       ELSE Outcome("", L("Please specify which data product's format you are interested in."),
                    None, None, driver, << >>, << >>, primary)

handle_get_download_info(entities, driver, kg) ==
   LET primary == find_primary_entity(entities, <<"DataProduct", "Parameter">>)
   IN  IF Truthy(primary.name)
       THEN LET q == get_entity_details(driver, kg, primary.name[1], primary.label)
            IN  Outcome("",
                        IF q.details # None /\ k_link \in DictKeys(q.details[1].node)
                        THEN P("You can usually download data for ",
                               DictGet(q.details[1].node, k_name, << >>))
                             \o P(" from this link: ", DictGet(q.details[1].node, k_link, << >>))
                             \o L(". Please visit the MOSDAC website for specific download procedures.")
                        ELSE P("I don't have direct download links for ", primary.name[1])
                             \o L(". Please visit the MOSDAC website (mosdac.gov.in) and navigate to the data products section to find download options."),
                        None, None, q.driver, << >>, <<q.query>>, primary)
       ELSE Outcome("", L("Please specify which data product you'd like download information for."),
                    None, None, driver, << >>, << >>, primary)

handle_get_applications(entities, content, name, driver, kg) ==
   LET primary == find_primary_entity(entities, <<"DataProduct", "Parameter", "Satellite">>)
   IN  IF Truthy(primary.name)
       THEN LET q == get_related_entities(driver, kg, primary.name[1], primary.label[1],
                                          APPLICABLE_FOR, "ApplicationArea")
            IN  IF q.related # << >> /\ ~joinable(q.related)
                THEN Outcome("TypeError", << >>, content, name, q.driver,
                             << >>, <<q.query>>, primary)
                ELSE Outcome("",
                        IF q.related # << >>
                        THEN P("The data/satellite '", primary.name[1])
                             \o L("' is applicable for areas such as: ")
                             \o comma_join(q.related) \o L(".")
                        ELSE P("I don't have specific application information for ", primary.name[1])
                             \o L(" in my knowledge base."),
                        None, None, q.driver, << >>, <<q.query>>, primary)
       ELSE Outcome("", L("Please tell me which data product or satellite you'd like to know applications for."),
                    None, None, driver, << >>, << >>, primary)

\* Variant of handle_get_services: an organisation the recognizer tagged is
\* taken for the institution.
handle_get_services_org_institution(entities, content, name, driver, kg) ==
   LET institution_name == DictGet(entities, "Institution", DictGet(entities, "ORG", MOSDAC))
       q == get_related_entities(driver, kg, institution_name, "Institution",
                                 OFFERS_SERVICE, "Service")
       primary == [label |-> Some("Institution"), name |-> Some(institution_name)]
   IN  IF q.related # << >> /\ ~joinable(q.related)
       THEN Outcome("TypeError", << >>, content, name, q.driver, << >>, <<q.query>>, primary)
       ELSE Outcome("",
               IF q.related # << >>
               THEN P("", institution_name) \o L(" offers services like: ")
                    \o comma_join(q.related)
                    \o L(". You can often find visualization tools or data download portals.")
               ELSE P("I couldn't find specific service information for ", institution_name)
                    \o L("."),
               None, None, q.driver, << >>, <<q.query>>, primary)

handle_get_services(entities, content, name, driver, kg) ==
   LET institution_name == DictGet(entities, "Institution", MOSDAC)
       q == get_related_entities(driver, kg, institution_name, "Institution",
                                 OFFERS_SERVICE, "Service")
       primary == [label |-> Some("Institution"), name |-> Some(institution_name)]
   IN  IF q.related # << >> /\ ~joinable(q.related)
       THEN Outcome("TypeError", << >>, content, name, q.driver, << >>, <<q.query>>, primary)
       ELSE Outcome("",
               IF q.related # << >>
               THEN P("", institution_name) \o L(" offers services like: ")
                    \o comma_join(q.related)
                    \o L(". You can often find visualization tools or data download portals.")
               ELSE P("I couldn't find specific service information for ", institution_name)
                    \o L("."),
               None, None, q.driver, << >>, <<q.query>>, primary)

handle_summarize_info(content, name, driver, http) ==
   IF Truthy(content)
   THEN LET prompt == P("Summarize the following information about ", Fmt(name))
                      \o P(" concisely in a paragraph:\n\n", content[1])
            llm_summary == call_gemini_llm(prompt, http)
        IN  IF llm_summary.raised # ""
            THEN Outcome(llm_summary.raised, << >>, content, name, driver,
                         <<prompt>>, << >>, [label |-> None, name |-> None])
            ELSE Outcome("", P("* Here's a summary of the previous information about ", Fmt(name))
                             \o L(":\n") \o llm_summary.text,
                         None, None, driver, <<prompt>>, << >>, [label |-> None, name |-> None])
   ELSE Outcome("", L(NothingToSummarize), None, None, driver, << >>, << >>,
                [label |-> None, name |-> None])

\* Variant of handle_generate_use_cases: an entity the store does not hold
\* is answered with the fallback, without a call of the generative client.
handle_generate_use_cases_needs_match(entities, content, name, driver, kg, http) ==
   LET primary == find_primary_entity(entities,
                     <<"DataProduct", "Satellite", "Parameter", "ApplicationArea">>)
       q == get_entity_details(driver, kg, Fmt(primary.name), primary.label)
   IN  IF Truthy(primary.name) /\ q.details # None
       THEN LET prompt == P("Generate 3-5 creative and practical use case ideas for '", primary.name[1])
                          \o P("' (which is ", lower(LabelStr[primary.label[1]]))
                          \o P("), considering its nature as ",
                               Fmt(node_get(q.details[1].node, k_description)))
                          \o L(". Focus on meteorological, oceanographic, or environmental applications. Provide them as a bulleted list.")
                llm_use_cases == call_gemini_llm(prompt, http)
            IN  IF llm_use_cases.raised # ""
                THEN Outcome(llm_use_cases.raised, << >>, content, name, q.driver,
                             <<prompt>>, <<q.query>>, primary)
                ELSE Outcome("", P("* Here are some use case ideas for ", primary.name[1])
                                 \o L(":\n") \o llm_use_cases.text,
                             None, None, q.driver, <<prompt>>, <<q.query>>, primary)
       ELSE IF Truthy(primary.name)
       THEN Outcome("", L(PleaseSpecifyUseCases), None, None, q.driver, << >>, <<q.query>>, primary)
       ELSE Outcome("", L(PleaseSpecifyUseCases), None, None, driver, << >>, << >>, primary)

handle_generate_use_cases(entities, content, name, driver, kg, http) ==
   LET primary == find_primary_entity(entities,
                     <<"DataProduct", "Satellite", "Parameter", "ApplicationArea">>)
   IN  IF Truthy(primary.name)
       THEN LET q == get_entity_details(driver, kg, primary.name[1], primary.label)
                description == IF q.details # None
                               THEN node_get(q.details[1].node, k_description) ELSE None
                context == IF Truthy(description)
                           THEN P("", description[1])
                           ELSE P("data related to ", primary.name[1])
                prompt == P("Generate 3-5 creative and practical use case ideas for '", primary.name[1])
                          \o P("' (which is ", lower(LabelStr[primary.label[1]]))
                          \o L("), considering its nature as ") \o context
                          \o L(". Focus on meteorological, oceanographic, or environmental applications. Provide them as a bulleted list.")
                llm_use_cases == call_gemini_llm(prompt, http)
            IN  IF llm_use_cases.raised # ""
                THEN Outcome(llm_use_cases.raised, << >>, content, name, q.driver,
                             <<prompt>>, <<q.query>>, primary)
                ELSE Outcome("", P("* Here are some use case ideas for ", primary.name[1])
                                 \o L(":\n") \o llm_use_cases.text,
                             None, None, q.driver, <<prompt>>, <<q.query>>, primary)
       ELSE Outcome("", L(PleaseSpecifyUseCases), None, None, driver, << >>, << >>, primary)

\* The body of generate_response after the call of process_query, whose
\* result is nlu_result; content and name are the memory slot on entry.
generate_response(nlu_result, content, name, driver, kg, http) ==
   LET intent == nlu_result.main_intent
       entities == nlu_result.entities
   IN  IF intent = "get_details" THEN handle_get_details(entities, content, name, driver, kg)
       ELSE IF intent = "list_data_products" THEN handle_list_data_products(driver, kg)
       ELSE IF intent = "get_data_format"
       THEN handle_get_data_format(entities, content, name, driver, kg)
       ELSE IF intent = "get_download_info" THEN handle_get_download_info(entities, driver, kg)
       ELSE IF intent = "get_applications"
       THEN handle_get_applications(entities, content, name, driver, kg)
       ELSE IF intent = "get_services"
       THEN handle_get_services(entities, content, name, driver, kg)
       ELSE IF intent = "summarize_info" THEN handle_summarize_info(content, name, driver, http)
       ELSE IF intent = "generate_use_cases"
       THEN handle_generate_use_cases(entities, content, name, driver, kg, http)
       ELSE Outcome("", L(DefaultResponse), content, name, driver, << >>, << >>,
                    [label |-> None, name |-> None])

(***************************************************************************)
(* The graphs, answers and utterances the model is explored on.            *)
(***************************************************************************)
Entry(k, v) == [key |-> k, value |-> v]

GraphNode(label, props) == [label |-> label, props |-> props]

GraphRel(from, type, to) == [from |-> from, to |-> to, type |-> type]

EmptyGraph == [nodes |-> << >>, rels |-> << >>]

\* A DataProduct with a description and neighbours, one whose description
\* is the empty string, a Satellite without neighbours or description, one
\* with a description and no neighbours, and a TimeResolution, which is
\* keyed by value and has no name.
SampleGraph ==
   [nodes |->
      << GraphNode("DataProduct",
            << Entry(k_name, <<"S","e","a"," ","S","u","r","f","a","c","e"," ","T","e","m","p","e","r","a","t","u","r","e">>),
               Entry(k_description, <<"D","a","i","l","y"," ","S","S","T">>),
               Entry(<<"u","p","d","a","t","e","_","f","r","e","q","u","e","n","c","y">>, <<"d","a","i","l","y">>),
               Entry(k_link, <<"/","s","s","t">>) >>),
         GraphNode("Satellite",
            << Entry(k_name, <<"I","N","S","A","T","-","3","D">>) >>),
         GraphNode("Parameter",
            << Entry(k_name, <<"T","e","m","p","e","r","a","t","u","r","e">>) >>),
         GraphNode("DataProduct",
            << Entry(k_name, <<"R","a","i","n","f","a","l","l"," ","D","a","t","a">>),
               Entry(k_description, << >>) >>),
         GraphNode("Satellite",
            << Entry(k_name, <<"I","N","S","A","T","-","3","D","R">>),
               Entry(k_description, <<"I","m","a","g","e","r">>),
               Entry(k_link, <<"/","i","n","s","a","t">>) >>),
         GraphNode("TimeResolution",
            << Entry(<<"v","a","l","u","e">>, <<"d","a","i","l","y">>) >>),
         GraphNode("DataFormat",
            << Entry(k_name, <<"N","e","t","C","D","F">>) >>),
         GraphNode("ApplicationArea",
            << Entry(k_name, <<"W","e","a","t","h","e","r"," ","F","o","r","e","c","a","s","t","i","n","g">>) >>),
         GraphNode("Institution",
            << Entry(k_name, MOSDAC) >>),
         GraphNode("Service",
            << Entry(k_name, <<"D","a","t","a"," ","D","o","w","n","l","o","a","d">>) >>),
         GraphNode("DataFormat",
            << Entry(k_name, <<"H","D","F">>) >>) >>,
    rels |->
      << GraphRel(1, FROM_SATELLITE, 2),
         GraphRel(1, PROVIDES, 3),
         GraphRel(4, HAS_TIME_RESOLUTION, 6),
         GraphRel(1, AVAILABLE_IN_FORMAT, 7),
         GraphRel(1, AVAILABLE_IN_FORMAT, 11),
         GraphRel(1, APPLICABLE_FOR, 8),
         GraphRel(9, OFFERS_SERVICE, 10) >>]

Graphs == {EmptyGraph, SampleGraph}

KGIntents ==
   {"get_details", "get_download_info", "generate_use_cases", "get_data_format",
    "get_applications", "get_services", "list_data_products"}

\* What can happen to the query of one call.  A reconnect is attempted only
\* when no driver is held; the query runs only with a driver.
KGAnswers(intent, driver, graph) ==
   {[graph |-> graph, raises |-> x, reconnects |-> c] :
       c \in (IF driver = None /\ intent \in KGIntents THEN BOOLEAN ELSE {FALSE}),
       x \in (IF intent \in KGIntents THEN BOOLEAN ELSE {FALSE})}

\* The outcomes of the HTTP call: a payload with candidates, a payload
\* without, a payload of another shape, and the request exceptions.
HttpOutcomes(intent) ==
   IF intent \in {"summarize_info", "generate_use_cases"}
   THEN {"candidates", "no_candidates", "KeyError", "Timeout", "ConnectionError", "HTTPError"}
   ELSE {"candidates"}

\* The utterances sent to the bot: every fragment alone, the empty text,
\* an intent phrase followed by an entity phrase or by a phrase only the
\* recognizer can tag, and two signals at once.
BotFragSeqs ==
   {<< >>} \cup {<<f>> : f \in DOMAIN Fragments}
   \cup {<<f, e>> : f \in {1, 2, 5, 9, 10}, e \in {12, 13, 14, 15}}
   \cup {<<3, 8>>, <<4, 9>>, <<7, 15>>, <<6, 15>>}

\* The calls of generate_response: an utterance, what the recognizer
\* returns for it and what process_query returns for the two.  TLC puts a
\* record in normal form in place the first time it compares it; comparing
\* the set with itself here does that once, when the definition is
\* evaluated, and not in the workers that share its value.
BotCalls ==
   LET calls ==
          UNION {{[doc_ents |-> ents, nlu_result |-> process_query(Join(fs), ents),
                   text |-> Join(fs)] : ents \in DocEnts(fs)} : fs \in BotFragSeqs}
   IN  IF calls = calls THEN calls ELSE { }

(***************************************************************************)
(* The state: the graph, the bot's memory slot and driver, the last call of*)
(* generate_response (its input, what the extractor returned, how it       *)
(* ended and what it issued, with the outcome the HTTP call of that call   *)
(* had or would have had), pc, the position of the caller, and the last    *)
(* exchange of the /chat endpoint: the message field of the request, the   *)
(* number of calls of generate_response made for it, and the reply.  Of   *)
(* the store: the labels whose name it keeps unique, and the last call of  *)
(* the write side of the adapter.  threads are the requests being served   *)
(* at once on the one bot, each with its position and its locals.          *)
(***************************************************************************)
VARIABLES
   graph,
   last_detailed_response_content,
   last_detailed_entity_name,
   kg_driver,
   pc,
   text,
   doc_ents,
   nlu_result,
   raised,
   response_text,
   llm_prompts,
   http_outcome,
   kg_queries,
   primary_entity,
   chat_exchange,
   unique_constraints,
   kg_call,
   threads

vars ==
   <<graph, last_detailed_response_content, last_detailed_entity_name, kg_driver, pc, text,
     doc_ents, nlu_result, raised, response_text, llm_prompts, http_outcome, kg_queries,
     primary_entity, chat_exchange, unique_constraints, kg_call, threads>>

NoCall ==
   /\ text = << >>
   /\ doc_ents = << >>
   /\ nlu_result = None
   /\ raised = ""
   /\ response_text = << >>
   /\ llm_prompts = << >>
   /\ http_outcome = "candidates"
   /\ kg_queries = << >>
   /\ primary_entity = [label |-> None, name |-> None]

\* No request has reached the endpoint.
NoExchange == [body |-> << >>, invocations |-> 0, message |-> None, status |-> 0]

\* The adapter's write side has not been called.
NoWrite == [label |-> "", op |-> "", properties |-> << >>, result |-> << >>]

\* No request is being served.
NoThreads == << >>

\* ISROBot.__init__: an empty slot; the connection attempt succeeded or not.
Init ==
   /\ graph \in Graphs
   /\ last_detailed_response_content = None
   /\ last_detailed_entity_name = None
   /\ kg_driver \in {None, Driver}
   /\ pc = "idle"
   /\ NoCall
   /\ chat_exchange = NoExchange
   /\ unique_constraints = { }
   /\ kg_call = NoWrite
   /\ threads = NoThreads

\* Variant of GenerateResponse: the extraction looks at the memory slot, and
\* resolves an utterance without signal or entity against the remembered
\* subject.
GenerateResponse_extraction_reads_slot ==
   \E call \in BotCalls :
   \E nlu \in {IF /\ last_detailed_entity_name # None
                   /\ call.nlu_result.main_intent = "general_query"
                THEN [call.nlu_result EXCEPT !.main_intent = "get_details"]
                ELSE call.nlu_result} :
   \E kg \in KGAnswers(nlu.main_intent, kg_driver, graph) :
   \E http \in HttpOutcomes(nlu.main_intent) :
   \E out \in {generate_response(nlu, last_detailed_response_content,
                                 last_detailed_entity_name, kg_driver, kg, http)} :
      /\ text' = call.text
      /\ doc_ents' = call.doc_ents
      /\ nlu_result' = nlu
      /\ last_detailed_response_content' = out.content
      /\ last_detailed_entity_name' = out.name
      /\ kg_driver' = out.driver
      /\ raised' = out.raised
      /\ response_text' = out.response_text
      /\ llm_prompts' = out.llm_prompts
      /\ http_outcome' = http
      /\ kg_queries' = out.kg_queries
      /\ primary_entity' = out.primary
      /\ pc' = IF out.raised = "" THEN "returned" ELSE "raised"
      /\ graph' = graph_after(graph, out.kg_queries)
      /\ UNCHANGED <<chat_exchange, unique_constraints, kg_call, threads>>

\* One call of generate_response, to its return or to the exception, made
\* without the endpoint.
GenerateResponse ==
   \E call \in BotCalls :
   \E kg \in KGAnswers(call.nlu_result.main_intent, kg_driver, graph) :
   \E http \in HttpOutcomes(call.nlu_result.main_intent) :
   \E out \in {generate_response(call.nlu_result, last_detailed_response_content,
                                 last_detailed_entity_name, kg_driver, kg, http)} :
      /\ text' = call.text
      /\ doc_ents' = call.doc_ents
      /\ nlu_result' = call.nlu_result
      /\ last_detailed_response_content' = out.content
      /\ last_detailed_entity_name' = out.name
      /\ kg_driver' = out.driver
      /\ raised' = out.raised
      /\ response_text' = out.response_text
      /\ llm_prompts' = out.llm_prompts
      /\ http_outcome' = http
      /\ kg_queries' = out.kg_queries
      /\ primary_entity' = out.primary
      /\ pc' = IF out.raised = "" THEN "returned" ELSE "raised"
      /\ graph' = graph_after(graph, out.kg_queries)
      /\ UNCHANGED <<chat_exchange, unique_constraints, kg_call, threads>>

Next == GenerateResponse

Spec == Init /\ [][Next]_vars

(***************************************************************************)
(* app.py: the /chat endpoint in front of the one bot instance.  The body  *)
(* of a reply is the dictionary given to jsonify; a call that raises       *)
(* leaves the endpoint as the framework's 500 answer, without a body of    *)
(* the endpoint.                                                           *)
(***************************************************************************)
\* The message fields that are not a text to answer: the field is absent
\* (None) or the empty string.
EmptyMessages == {None, Some(<< >>)}

\* chat(): lines 27-28, the request without a message.
ChatRejects ==
   \E message \in EmptyMessages :
      /\ ~Truthy(message)
      /\ chat_exchange' =
            [body |-> <<[key |-> "error", value |-> L("No message provided")]>>,
             invocations |-> 0, message |-> message, status |-> 400]
      /\ UNCHANGED <<graph, last_detailed_response_content, last_detailed_entity_name,
                     kg_driver, pc, text, doc_ents, nlu_result, raised, response_text,
                     llm_prompts, http_outcome, kg_queries, primary_entity,
                     unique_constraints, kg_call, threads>>

\* chat(): lines 34-39, the bot is called with the message; to the return
\* of generate_response and the reply, or to the exception.
ChatAnswers ==
   \E call \in BotCalls :
   \E kg \in KGAnswers(call.nlu_result.main_intent, kg_driver, graph) :
   \E http \in HttpOutcomes(call.nlu_result.main_intent) :
   \E out \in {generate_response(call.nlu_result, last_detailed_response_content,
                                 last_detailed_entity_name, kg_driver, kg, http)} :
      /\ Truthy(Some(call.text))
      /\ text' = call.text
      /\ doc_ents' = call.doc_ents
      /\ nlu_result' = call.nlu_result
      /\ last_detailed_response_content' = out.content
      /\ last_detailed_entity_name' = out.name
      /\ kg_driver' = out.driver
      /\ raised' = out.raised
      /\ response_text' = out.response_text
      /\ llm_prompts' = out.llm_prompts
      /\ http_outcome' = http
      /\ kg_queries' = out.kg_queries
      /\ primary_entity' = out.primary
      /\ pc' = IF out.raised = "" THEN "returned" ELSE "raised"
      /\ graph' = graph_after(graph, out.kg_queries)
      /\ chat_exchange' =
            IF out.raised = ""
            THEN [body |-> <<[key |-> "response", value |-> out.response_text]>>,
                  invocations |-> 1, message |-> Some(call.text), status |-> 200]
            ELSE [body |-> << >>, invocations |-> 1, message |-> Some(call.text),
                  status |-> 500]
      /\ UNCHANGED <<unique_constraints, kg_call, threads>>

chat == ChatRejects \/ ChatAnswers

NextApp == chat

SpecApp == Init /\ [][NextApp]_vars

(***************************************************************************)
(* The write side of the adapter, called as data_ingestion.py calls it: a  *)
(* node by its name alone (_ingest_data_product) or by its name and a link *)
(* (scrape_and_ingest_menus), a relationship between two names, and the    *)
(* uniqueness constraints the ingester asks the server for.                *)
(***************************************************************************)
MaxNodes == 2

IngestLabels == {"DataProduct", "Satellite"}

IngestNames ==
   {<<"I","N","S","A","T","-","3","D">>, <<"S","S","T">>}

IngestLinks ==
   {<<"/","a">>}

\* The calls of add_entity.  The comparison puts the records in normal form
\* once, when the definition is evaluated.
EntityCalls ==
   LET calls ==
          {[label |-> l, properties |-> <<Entry(k_name, n)>>] :
              l \in IngestLabels, n \in IngestNames}
          \cup {[label |-> l, properties |-> <<Entry(k_name, n), Entry(k_link, k)>>] :
                   l \in IngestLabels, n \in IngestNames, k \in IngestLinks}
   IN  IF calls = calls THEN calls ELSE { }

\* A label has two nodes of one name: the server refuses the constraint.
has_duplicates(label) ==
   \E i, j \in DOMAIN graph.nodes :
      /\ i # j
      /\ graph.nodes[i].label = label
      /\ graph.nodes[j].label = label
      /\ node_get(graph.nodes[i].props, k_name) = node_get(graph.nodes[j].props, k_name)

\* MOSDACDataIngester._create_constraints: one CREATE CONSTRAINT query per
\* label, each through _execute_query, which swallows its failure.
CreateConstraints ==
   \E accepted \in SUBSET IngestLabels :
   \E c \in (IF kg_driver = None THEN BOOLEAN ELSE {FALSE}) :
      LET active == IF kg_driver = None /\ c THEN Driver ELSE kg_driver
          created == IF active = None
                     THEN { }
                     ELSE {l \in accepted : ~has_duplicates(l)}
      IN  /\ unique_constraints' = unique_constraints \cup created
          /\ kg_driver' = active
          /\ kg_call' = [label |-> "", op |-> "_create_constraints",
                         properties |-> << >>, result |-> << >>]
          /\ UNCHANGED <<graph, last_detailed_response_content, last_detailed_entity_name,
                         pc, text, doc_ents, nlu_result, raised, response_text,
                         llm_prompts, http_outcome, kg_queries, primary_entity,
                         chat_exchange, threads>>

\* One call of KnowledgeGraphManager.add_entity.
AddEntity ==
   \E call \in EntityCalls :
   \E x \in BOOLEAN :
   \E c \in (IF kg_driver = None THEN BOOLEAN ELSE {FALSE}) :
   \E w \in {add_entity(kg_driver,
                         [graph |-> graph,
                          raises |-> x \/ violates_unique(graph, unique_constraints,
                                                          call.label, call.properties),
                          reconnects |-> c],
                         call.label, call.properties)} :
      /\ Len(w.graph.nodes) <= MaxNodes
      /\ graph' = w.graph
      /\ kg_driver' = w.driver
      /\ kg_call' = [label |-> call.label, op |-> "add_entity",
                     properties |-> call.properties, result |-> w.result]
      /\ UNCHANGED <<last_detailed_response_content, last_detailed_entity_name,
                     pc, text, doc_ents, nlu_result, raised, response_text,
                     llm_prompts, http_outcome, kg_queries, primary_entity,
                     chat_exchange, unique_constraints, threads>>

\* One call of KnowledgeGraphManager.add_relationship, from a data product
\* to a satellite as _ingest_data_product makes it.
AddRelationship ==
   \E n \in IngestNames, m \in IngestNames :
   \E x \in BOOLEAN :
   \E c \in (IF kg_driver = None THEN BOOLEAN ELSE {FALSE}) :
   \E w \in {add_relationship(kg_driver,
                               [graph |-> graph, raises |-> x, reconnects |-> c],
                               "DataProduct", <<Entry(k_name, n)>>,
                               "Satellite", <<Entry(k_name, m)>>, FROM_SATELLITE)} :
      /\ graph' = w.graph
      /\ kg_driver' = w.driver
      /\ kg_call' = [label |-> "DataProduct", op |-> "add_relationship",
                     properties |-> <<Entry(k_name, n)>>, result |-> w.result]
      /\ UNCHANGED <<last_detailed_response_content, last_detailed_entity_name,
                     pc, text, doc_ents, nlu_result, raised, response_text,
                     llm_prompts, http_outcome, kg_queries, primary_entity,
                     chat_exchange, unique_constraints, threads>>

\* KnowledgeGraphManager.__init__ on an empty store.
InitKG ==
   /\ Init
   /\ graph = EmptyGraph

NextKG == CreateConstraints \/ AddEntity \/ AddRelationship

SpecKG == InitKG /\ [][NextKG]_vars

(***************************************************************************)
(* Requests served at once by the one bot of app.py.  A thread runs        *)
(* generate_response statement by statement and may be preempted between   *)
(* two accesses of the memory slot: the two writes of the get_details      *)
(* branch (lines 95-96, or 98-99 and 133-134 with None), its read at line  *)
(* 130, the test of line 201, the two reads of the prompt of line 202 and  *)
(* the two writes of lines 208-209.  Each thread keeps what its lookup     *)
(* found, what it read from the slot and how its call ended.               *)
(***************************************************************************)
NumThreads == 2

Threads == 1..NumThreads

\* The nodes with a description that the lookups of the requests find.
\* The comparison puts the records in normal form once, when the
\* definition is evaluated.
DescribedNodes ==
   LET nodes ==
          <<[description |-> <<"D","a","i","l","y"," ","S","S","T">>,
             name |-> <<"S","S","T">>],
            [description |-> <<"G","E","O">>,
             name |-> <<"I","N","S","A","T","-","3","D">>]>>
   IN  IF nodes = nodes THEN nodes ELSE << >>

\* What get_entity_details gives a get_details request: nothing, or a node
\* with its name and description.
DetailsFound ==
   {None} \cup {Some(DescribedNodes[i]) : i \in DOMAIN DescribedNodes}

IdleThread ==
   [content |-> None, found |-> None, name |-> None, pc |-> "idle", reply |-> ""]

\* chat() line 34 for an utterance resolved to get_details, to the return of
\* get_entity_details (line 85).
ReceiveDetails(t) ==
   /\ threads[t].pc = "idle"
   /\ \E found \in DetailsFound :
         threads' = [threads EXCEPT ![t] =
                       [IdleThread EXCEPT !.found = found,
                                          !.pc = IF found # None
                                                 THEN "write_content"
                                                 ELSE "clear_content"]]
   /\ UNCHANGED <<last_detailed_response_content, last_detailed_entity_name>>

\* Variant of WriteContent: the slot is written under a lock that a
\* request building its prompt holds.
WriteContent_under_lock(t) ==
   /\ threads[t].pc = "write_content"
   /\ \A o \in Threads \ {t} : threads[o].pc \notin {"read_name", "read_content"}
   /\ last_detailed_response_content' = Some(threads[t].found[1].description)
   /\ threads' = [threads EXCEPT ![t].pc = "write_name"]
   /\ UNCHANGED last_detailed_entity_name

\* Line 95: self.last_detailed_response_content = description_content
WriteContent(t) ==
   /\ threads[t].pc = "write_content"
   /\ last_detailed_response_content' = Some(threads[t].found[1].description)
   /\ threads' = [threads EXCEPT ![t].pc = "write_name"]
   /\ UNCHANGED last_detailed_entity_name

\* Line 96: self.last_detailed_entity_name = node.get('name', ...)
WriteName(t) ==
   /\ threads[t].pc = "write_name"
   /\ last_detailed_entity_name' = Some(threads[t].found[1].name)
   /\ threads' = [threads EXCEPT ![t].pc = "read_offer"]
   /\ UNCHANGED last_detailed_response_content

\* Line 130: if self.last_detailed_response_content, the offer is appended;
\* the call returns.
ReadOffer(t) ==
   /\ threads[t].pc = "read_offer"
   /\ threads' = [threads EXCEPT ![t] =
                    [IdleThread EXCEPT !.reply = IF Truthy(last_detailed_response_content)
                                                 THEN "details_with_offer"
                                                 ELSE "details"]]
   /\ UNCHANGED <<last_detailed_response_content, last_detailed_entity_name>>

\* chat() line 34 for an utterance resolved to summarize_info, to the test
\* of line 201.
ReceiveSummarize(t) ==
   /\ threads[t].pc = "idle"
   /\ threads' = [threads EXCEPT ![t] =
                    [IdleThread EXCEPT !.pc = IF Truthy(last_detailed_response_content)
                                              THEN "read_name"
                                              ELSE "clear_content",
                                       !.reply = IF Truthy(last_detailed_response_content)
                                                 THEN ""
                                                 ELSE "nothing_to_summarize"]]
   /\ UNCHANGED <<last_detailed_response_content, last_detailed_entity_name>>

\* Line 202, the first field of the prompt: self.last_detailed_entity_name
ReadName(t) ==
   /\ threads[t].pc = "read_name"
   /\ threads' = [threads EXCEPT ![t].name = last_detailed_entity_name,
                                 ![t].pc = "read_content"]
   /\ UNCHANGED <<last_detailed_response_content, last_detailed_entity_name>>

\* Line 202, the second field: self.last_detailed_response_content; the
\* prompt is built from the two values read.
ReadContent(t) ==
   /\ threads[t].pc = "read_content"
   /\ threads' = [threads EXCEPT ![t].content = last_detailed_response_content,
                                 ![t].pc = "call_llm"]
   /\ UNCHANGED <<last_detailed_response_content, last_detailed_entity_name>>

\* Line 203: _call_gemini_llm(prompt) raises at its line 26; lines 204-209
\* do not run.
CallLLM(t) ==
   /\ threads[t].pc = "call_llm"
   /\ threads' = [threads EXCEPT ![t] = [IdleThread EXCEPT !.reply = "AttributeError"]]
   /\ UNCHANGED <<last_detailed_response_content, last_detailed_entity_name>>

\* Lines 133 and 208: self.last_detailed_response_content = None
ClearContent(t) ==
   /\ threads[t].pc = "clear_content"
   /\ last_detailed_response_content' = None
   /\ threads' = [threads EXCEPT ![t].pc = "clear_name"]
   /\ UNCHANGED last_detailed_entity_name

\* Lines 134 and 209: self.last_detailed_entity_name = None; the call
\* returns.
ClearName(t) ==
   /\ threads[t].pc = "clear_name"
   /\ last_detailed_entity_name' = None
   /\ threads' = [threads EXCEPT ![t] =
                    [IdleThread EXCEPT !.reply = IF threads[t].reply = ""
                                                 THEN "not_found"
                                                 ELSE threads[t].reply]]
   /\ UNCHANGED last_detailed_response_content

\* One statement of one thread.
ThreadStep(t) ==
   \/ ReceiveDetails(t)
   \/ WriteContent(t)
   \/ WriteName(t)
   \/ ReadOffer(t)
   \/ ReceiveSummarize(t)
   \/ ReadName(t)
   \/ ReadContent(t)
   \/ CallLLM(t)
   \/ ClearContent(t)
   \/ ClearName(t)

\* app.py line 17: one bot for every request; no request is being served.
InitConc ==
   /\ graph = SampleGraph
   /\ last_detailed_response_content = None
   /\ last_detailed_entity_name = None
   /\ kg_driver = Driver
   /\ pc = "idle"
   /\ NoCall
   /\ chat_exchange = NoExchange
   /\ unique_constraints = { }
   /\ kg_call = NoWrite
   /\ threads = [t \in Threads |-> IdleThread]

NextConc ==
   /\ \E t \in Threads : ThreadStep(t)
   /\ UNCHANGED <<graph, kg_driver, pc, text, doc_ents, nlu_result, raised, response_text,
                  llm_prompts, http_outcome, kg_queries, primary_entity, chat_exchange,
                  unique_constraints, kg_call>>

SpecConc == InitConc /\ [][NextConc]_vars

(***************************************************************************)
(* The extractor alone: process_query applied to every utterance of the    *)
(* bounded set and every output of the recognizer.                         *)
(***************************************************************************)
InitNLU ==
   /\ graph = EmptyGraph
   /\ last_detailed_response_content = None
   /\ last_detailed_entity_name = None
   /\ kg_driver = None
   /\ pc = "nlu_call"
   /\ \E fs \in FragSeqs :
         /\ text = Join(fs)
         /\ doc_ents \in DocEnts(fs)
   /\ nlu_result = None
   /\ raised = ""
   /\ response_text = << >>
   /\ llm_prompts = << >>
   /\ http_outcome = "candidates"
   /\ kg_queries = << >>
   /\ primary_entity = [label |-> None, name |-> None]
   /\ chat_exchange = NoExchange
   /\ unique_constraints = { }
   /\ kg_call = NoWrite
   /\ threads = NoThreads

ProcessQuery ==
   /\ pc = "nlu_call"
   /\ nlu_result' = process_query(text, doc_ents)
   /\ pc' = "nlu_return"
   /\ UNCHANGED <<graph, last_detailed_response_content, last_detailed_entity_name, kg_driver,
                  text, doc_ents, raised, response_text, llm_prompts, http_outcome,
                  kg_queries, primary_entity, chat_exchange, unique_constraints,
                  kg_call, threads>>

NextNLU == ProcessQuery

SpecNLU == InitNLU /\ [][NextNLU]_vars

(***************************************************************************)
(* Properties.                                                             *)
(***************************************************************************)
\* A call of generate_response has ended, by a return or by an exception.
Called == pc \in {"returned", "raised"}

\* process_query has returned in the extractor-only specification.
NLUDone == pc = "nlu_return"

SlotEmpty ==
   /\ last_detailed_response_content = None
   /\ last_detailed_entity_name = None

\* The last call was a get_details whose lookup returned a node with a
\* non-empty description.
DetailsWithDescription ==
   /\ nlu_result.main_intent = "get_details"
   /\ kg_queries # << >>
   /\ kg_queries[1].records # << >>
   /\ Truthy(node_get(kg_queries[1].records[1].n, k_description))

\* The last piece of the returned text, as a string.
LastPiece == <<response_text[Len(response_text)]>>

SummarizePrompt(name, content) ==
   P("Summarize the following information about ", name)
   \o P(" concisely in a paragraph:\n\n", content)

LLMTexts ==
   {P("", GeneratedText), L(ConnectApology), L(NoResponseApology), L(InternalApology)}

UseCasesWithoutMatch ==
   /\ Called
   /\ nlu_result.main_intent = "generate_use_cases"
   /\ primary_entity.name # None
   /\ kg_queries # << >>
   /\ kg_queries[1].records = << >>

(* C5 as stated: a generate_use_cases utterance that names an entity       *)
(* keyword, with no matching entity in the store, gets the "Please         *)
(* specify which data product, satellite, or parameter" fallback and no    *)
(* call of the generative client.                                          *)
C5_FallbackWithoutMatch ==
   UseCasesWithoutMatch
      => /\ pc = "returned"
         /\ response_text = L(PleaseSpecifyUseCases)
         /\ llm_prompts = << >>

(* C5 amended: in that case generate_response does not return the          *)
(* fallback; it passes exactly one prompt to the generative client, whose  *)
(* context is the generic phrase "data related to <entity>".  The fallback *)
(* is returned, without a store query or a prompt, only when no entity     *)
(* with a schema label was extracted.                                      *)
C5_GenericContextWithoutMatch ==
   /\ UseCasesWithoutMatch
         => /\ Len(llm_prompts) = 1
            /\ \E i \in DOMAIN llm_prompts[1] :
                  llm_prompts[1][i] = [lit |-> "data related to ",
                                       val |-> primary_entity.name[1]]
            /\ response_text # L(PleaseSpecifyUseCases)
   /\ ( /\ Called
        /\ nlu_result.main_intent = "generate_use_cases"
        /\ response_text = L(PleaseSpecifyUseCases) )
         => /\ \A i \in DOMAIN nlu_result.entities :
                  nlu_result.entities[i].key \notin known_entity_labels
            /\ llm_prompts = << >>
            /\ kg_queries = << >>

C5_Witness ==
   /\ UseCasesWithoutMatch
   /\ llm_prompts # << >>
   /\ primary_entity.label = Some("DataProduct")

\* The signals in the order of priority, each group with its intent.
IntentPriority ==
   << << <<"Query_Download">>, "get_download_info">>,
      << <<"Query_Format">>, "get_data_format">>,
      << <<"Query_TimeResolution">>, "get_time_resolution">>,
      << <<"Query_SpatialResolution">>, "get_spatial_resolution">>,
      << <<"Query_Applications">>, "get_applications">>,
      << <<"Query_Services">>, "get_services">>,
      << <<"Query_DataProducts">>, "list_data_products">>,
      << <<"Query_Summarize">>, "summarize_info">>,
      << <<"Query_UseCases">>, "generate_use_cases">>,
      << <<"Query_Details", "Query_Details_Object">>, "get_details">> >>

WhatData ==
   <<"w","h","a","t"," ","d","a","t","a">>

HowToDownload ==
   <<"h","o","w"," ","t","o"," ","d","o","w","n","l","o","a","d">>

(* C6: main_intent is the intent of the highest-priority signal among the  *)
(* signals the utterance fired, whatever else was matched; an utterance    *)
(* containing "what data" never resolves to get_details.                   *)
C6_HighestPrioritySignalWins ==
   NLUDone =>
      LET fired == Range(detect_intents(text))
          present(i) == \E k \in DOMAIN IntentPriority[i][1] :
                           IntentPriority[i][1][k] \in fired
      IN  /\ \A i \in DOMAIN IntentPriority :
                (present(i) /\ \A j \in 1..(i - 1) : ~present(j))
                   => nlu_result.main_intent = IntentPriority[i][2]
          /\ Contains(WhatData, lower(text)) => nlu_result.main_intent # "get_details"

C6_Witness ==
   /\ NLUDone
   /\ Contains(WhatData, lower(text))
   /\ nlu_result.entities # << >>
   /\ nlu_result.main_intent = "list_data_products"

\* The table entries whose label is DataProduct.
DataProductKeywords ==
   SelectSeq(mosdac_keywords, LAMBDA e : e.type_label = "DataProduct")

\* The utterance of the last call contains "how to download", in any case,
\* and a DataProduct keyword.
DownloadOfDataProduct ==
   /\ Contains(HowToDownload, lower(text))
   /\ \E i \in DOMAIN DataProductKeywords :
         Contains(DataProductKeywords[i].keyword, lower(text))

(* C7: for an utterance that contains "how to download" and a DataProduct  *)
(* keyword, main_intent is get_download_info and the entity the download   *)
(* handler resolves has label DataProduct or Parameter.                    *)
C7_DownloadResolvesDataProduct ==
   (Called /\ DownloadOfDataProduct)
      => /\ nlu_result.main_intent = "get_download_info"
         /\ primary_entity.label \in {Some("DataProduct"), Some("Parameter")}

C7_Witness ==
   /\ Called
   /\ DownloadOfDataProduct
   /\ text # lower(text)
   /\ kg_queries # << >>
   /\ primary_entity.label = Some("DataProduct")

\* The phrase occurs in the utterance when case is ignored.
OccursIgnoringCase(keyword) == Contains(lower(keyword), lower(text))

(* C8: an utterance, the empty one included, that matches no phrase of the *)
(* keyword table and has no retained NER span yields main_intent =         *)
(* "general_query" and an empty entities mapping.                          *)
C8_NoMatchIsGeneralQuery ==
   ( /\ NLUDone
     /\ \A i \in DOMAIN mosdac_keywords : ~OccursIgnoringCase(mosdac_keywords[i].keyword)
     /\ \A i \in DOMAIN doc_ents : doc_ents[i].label_ \notin RetainedNERLabels )
      => /\ nlu_result.main_intent = "general_query"
         /\ nlu_result.entities = << >>

C8_Witness ==
   /\ NLUDone
   /\ text # << >>
   /\ doc_ents # << >>
   /\ \A i \in DOMAIN mosdac_keywords : ~OccursIgnoringCase(mosdac_keywords[i].keyword)
   /\ \A i \in DOMAIN doc_ents : doc_ents[i].label_ \notin RetainedNERLabels
   /\ nlu_result.main_intent = "general_query"

\* The match of a table entry is in what process_query collected.
Recorded(e) ==
   \/ e.type_label \in Range(detect_intents(text))
   \/ \E i \in DOMAIN nlu_result.raw_entities :
         /\ nlu_result.raw_entities[i].type = "Keyword"
         /\ nlu_result.raw_entities[i].text = e.keyword
   \/ e.keyword \in Range(nlu_result.keywords)

(* C9: every phrase of the keyword table that the utterance contains when  *)
(* case is ignored is recorded by process_query, as an intent signal, a    *)
(* Keyword entity or an unclassified keyword.                              *)
C9_EveryContainedPhraseRecorded ==
   NLUDone =>
      \A i \in DOMAIN mosdac_keywords :
         OccursIgnoringCase(mosdac_keywords[i].keyword) => Recorded(mosdac_keywords[i])

(* C10: the entities mapping holds at most one name per label, and for     *)
(* each schema label it holds the text of the last candidate scanned with  *)
(* that label (none when there is no such candidate).                      *)
C10_OneNamePerLabelLastWins ==
   NLUDone =>
      LET ents == nlu_result.entities
          raw == nlu_result.raw_entities
          with(label) == {i \in DOMAIN raw : raw[i].label = label}
          last(label) == CHOOSE i \in with(label) : \A j \in with(label) : j <= i
      IN  /\ \A i, j \in DOMAIN ents : ents[i].key = ents[j].key => i = j
          /\ \A k \in DOMAIN KG_SCHEMA_nodes :
                LET label == KG_SCHEMA_nodes[k] IN
                IF with(label) # { }
                THEN \E i \in DOMAIN ents : /\ ents[i].key = label
                                            /\ ents[i].value = raw[last(label)].text
                ELSE label \notin DictKeys(ents)

C10_Witness ==
   /\ NLUDone
   /\ \E i, j \in DOMAIN nlu_result.raw_entities :
         /\ i < j
         /\ nlu_result.raw_entities[i].label = "Satellite"
         /\ nlu_result.raw_entities[j].label = "Satellite"
         /\ nlu_result.raw_entities[i].text # nlu_result.raw_entities[j].text
         /\ DictGet(nlu_result.entities, "Satellite", << >>) = nlu_result.raw_entities[j].text

\* A candidate entity of the last process_query call has a schema label.
HasSchemaCandidate ==
   \E i \in DOMAIN nlu_result.raw_entities :
      \E k \in DOMAIN KG_SCHEMA_nodes :
         nlu_result.raw_entities[i].label = KG_SCHEMA_nodes[k]

(* C11: when no intent signal fired, main_intent is "get_details" if and   *)
(* only if some candidate entity has a label that is a schema entity kind; *)
(* with no candidates, or only NER-labelled ones, it is "general_query".   *)
C11_UpgradeIffSchemaCandidate ==
   (NLUDone /\ detect_intents(text) = << >>)
      => nlu_result.main_intent =
            (IF HasSchemaCandidate THEN "get_details" ELSE "general_query")

C11_Witness ==
   /\ NLUDone
   /\ detect_intents(text) = << >>
   /\ \E i \in DOMAIN nlu_result.raw_entities : nlu_result.raw_entities[i].type = "NER"
   /\ HasSchemaCandidate
   /\ nlu_result.main_intent = "get_details"

\* The intents for which generate_response has no branch: such a call is
\* process_query followed by the return of the default text.
HandlerlessIntents == {"general_query", "get_time_resolution", "get_spatial_resolution"}

IsRead(query) ==
   \/ query.op \in {"get_entity_details", "get_related_entities"}
   \/ query.op = "_execute_query" /\ query.pattern = "(p:DataProduct)"

(* C13: no call of generate_response changes the knowledge graph: in every  *)
(* step the graph the store holds stays as it was, and every query the      *)
(* call issued, for every intent, is a read (get_entity_details,            *)
(* get_related_entities or the DataProduct listing); add_entity and         *)
(* add_relationship are never issued.                                       *)
C13_DialogueOnlyReads ==
   [][ /\ graph' = graph
       /\ \A i \in DOMAIN kg_queries' : IsRead(kg_queries'[i])
     ]_vars

C13_Witness ==
   /\ Called
   /\ graph # EmptyGraph
   /\ nlu_result.main_intent = "get_details"
   /\ kg_queries # << >>
   /\ kg_driver # None
   /\ kg_queries[1].records = << >>
   /\ primary_entity.name # None

\* No extracted entity has a label of the schema.
NoSchemaEntity ==
   \A i \in DOMAIN nlu_result.entities :
      \A k \in DOMAIN KG_SCHEMA_nodes :
         nlu_result.entities[i].key # KG_SCHEMA_nodes[k]

\* The clarifying prompt of each intent that needs an entity.
ClarifyingPrompt(intent) ==
   CASE intent = "get_details" ->
           "Please specify which MOSDAC data product, satellite, or service you'd like to know about."
     [] intent = "get_data_format" ->
           "Please specify which data product's format you are interested in."
     [] intent = "get_download_info" ->
           "Please specify which data product you'd like download information for."
     [] intent = "get_applications" ->
           "Please tell me which data product or satellite you'd like to know applications for."
     [] intent = "generate_use_cases" ->
           "Please specify which data product, satellite, or parameter you'd like use case ideas for."

EntityIntents ==
   {"get_details", "get_data_format", "get_download_info", "get_applications",
    "generate_use_cases"}

(* C14: for each intent that needs an entity (get_details, get_data_format, *)
(* get_download_info, get_applications, generate_use_cases), when no        *)
(* extracted entity has a label of the schema, generate_response returns    *)
(* that intent's clarifying prompt, raises no exception, and issues no      *)
(* query to the store and no call of the language model.                    *)
C14_NoEntityAsksToSpecify ==
   ( /\ Called
     /\ nlu_result.main_intent \in EntityIntents
     /\ NoSchemaEntity )
      => /\ pc = "returned"
         /\ raised = ""
         /\ response_text = L(ClarifyingPrompt(nlu_result.main_intent))
         /\ kg_queries = << >>
         /\ llm_prompts = << >>

C14_Witness ==
   /\ Called
   /\ nlu_result.main_intent \in EntityIntents \ {"get_details"}
   /\ NoSchemaEntity
   /\ nlu_result.entities # << >>
   /\ response_text = L(ClarifyingPrompt(nlu_result.main_intent))

\* A store that is reachable and holds nothing the call asks for.
ReachableEmptyStore == [graph |-> EmptyGraph, raises |-> FALSE, reconnects |-> FALSE]

\* The query of the call brought no record: the driver was absent, the
\* query failed, or nothing matched.
StoreGaveNothing ==
   /\ Called
   /\ kg_queries # << >>
   /\ kg_queries[1].records = << >>

(* C15: a failure of the store never reaches generate_response as an        *)
(* exception: when the driver is absent or the query fails the adapter      *)
(* gives an empty result, and generate_response then returns, for every     *)
(* intent, exactly the text it returns when the store is reachable and      *)
(* holds no match.                                                          *)
C15_StoreFailureReadsAsNotFound ==
   [][ StoreGaveNothing'
          => /\ pc' = "returned"
             /\ response_text' =
                   generate_response(nlu_result', last_detailed_response_content,
                                     last_detailed_entity_name, Driver,
                                     ReachableEmptyStore, http_outcome').response_text
     ]_vars

\* The query of the call ran without a driver: the reconnect failed too.
StoreUnreachable ==
   /\ kg_queries # << >>
   /\ kg_driver = None

\* The call reached the language model while the request to it fails.
AugmentationFails ==
   /\ llm_prompts # << >>
   /\ http_outcome \in {"Timeout", "ConnectionError", "HTTPError"}

(* C16: there is no retry: one call of generate_response issues at most one *)
(* query to the store and at most one call of the language model, and when  *)
(* either of them fails the call still returns a degraded response text     *)
(* for that request instead of raising.                                     *)
C16_NoRetryAndDegradedResponse ==
   Called
      => /\ Len(kg_queries) <= 1
         /\ Len(llm_prompts) <= 1
         /\ (StoreUnreachable \/ AugmentationFails)
               => /\ pc = "returned"
                  /\ raised = ""
                  /\ response_text # << >>

(* C17: POST /chat: when the message field is absent or empty the endpoint  *)
(* answers 400 with {"error": "No message provided"} without calling the    *)
(* bot, the memory slot staying as it was; for every non-empty message it   *)
(* calls generate_response exactly once and answers {"response": text}      *)
(* with the text the call returned.                                         *)
C17_ChatContract ==
   [][ /\ ~Truthy(chat_exchange'.message)
          => /\ chat_exchange'.status = 400
             /\ chat_exchange'.body =
                   <<[key |-> "error", value |-> L("No message provided")]>>
             /\ chat_exchange'.invocations = 0
             /\ UNCHANGED <<last_detailed_response_content, last_detailed_entity_name,
                            text, nlu_result, kg_queries, llm_prompts, pc>>
       /\ Truthy(chat_exchange'.message)
          => /\ chat_exchange'.invocations = 1
             /\ text' = chat_exchange'.message[1]
             /\ pc' = "returned"
             /\ chat_exchange'.status = 200
             /\ chat_exchange'.body = <<[key |-> "response", value |-> response_text']>>
     ]_vars

\* The nodes of a label under a name.
NodesWithKey(g, label, key) ==
   {i \in DOMAIN g.nodes :
       g.nodes[i].label = label /\ node_get(g.nodes[i].props, k_name) = key}

\* The store holds at most one node per label and name.
AtMostOnePerKey(g) ==
   \A i \in DOMAIN g.nodes :
      Cardinality(NodesWithKey(g, g.nodes[i].label,
                               node_get(g.nodes[i].props, k_name))) = 1

(* C18: the upsert of an entity is idempotent and keeps natural keys        *)
(* unique: after any sequence of add_entity calls the store holds at most   *)
(* one entity per label and name, and the same add_entity issued twice      *)
(* leaves exactly one stored entity with that name.                         *)
C18_UpsertIdempotentUniqueKeys ==
   [][ kg_call'.op = "add_entity"
          => /\ AtMostOnePerKey(graph')
             /\ ( /\ kg_call.op = "add_entity"
                  /\ kg_call'.label = kg_call.label
                  /\ kg_call'.properties = kg_call.properties
                  /\ kg_call.result # << >>
                  /\ kg_call'.result # << >> )
                   => Cardinality(NodesWithKey(graph', kg_call'.label,
                                               node_get(kg_call'.properties, k_name))) = 1
     ]_vars

\* The utterance of scenario A.
TellMeAboutSST == Fragments[16]

INSAT3D ==
   <<"I","N","S","A","T","-","3","D">>

\* Scenario A was played: the utterance, against the store holding the
\* data product with its description and its satellite, with a connection.
ScenarioA ==
   /\ Called
   /\ text = TellMeAboutSST
   /\ graph = SampleGraph
   /\ kg_driver # None

(* C19: scenario A: for "Tell me about sea surface temperature data"        *)
(* against a store holding the DataProduct "Sea Surface Temperature" with   *)
(* a description and a FROM_SATELLITE relationship to "INSAT-3D", the       *)
(* returned text contains the "- Description: ..." line and the sentence    *)
(* "derived from the INSAT-3D satellite", ends with the follow-up offer,    *)
(* and the memory slot then holds that description.                         *)
C19_ScenarioA ==
   ScenarioA
      => /\ pc = "returned"
         /\ \E i \in DOMAIN response_text :
               /\ response_text[i].lit = "- Description: "
               /\ Some(response_text[i].val) = last_detailed_response_content
         /\ \E i \in DOMAIN response_text :
               /\ response_text[i] =
                     [lit |-> "  - It is derived from the ", val |-> INSAT3D]
               /\ i + 1 \in DOMAIN response_text
               /\ response_text[i + 1].lit = " satellite."
         /\ LastPiece = L(OfferText)
         /\ last_detailed_response_content =
               node_get(SampleGraph.nodes[1].props, k_description)

\* A name and a content that one get_details request wrote together.
WrittenTogether(name, content) ==
   \E i \in DOMAIN DescribedNodes :
      /\ name = Some(DescribedNodes[i].name)
      /\ content = Some(DescribedNodes[i].description)

\* Request t is building its prompt: between the test of line 201 and the
\* call of line 203.
BuildingPrompt(t) == threads[t].pc \in {"read_name", "read_content"}

DetailsPreferredLabels ==
   <<"DataProduct", "Satellite", "Sensor", "Parameter", "ApplicationArea", "Service",
     "Institution">>

\* The extracted entities have an entry under the label.
HasEntity(label) ==
   \E i \in DOMAIN nlu_result.entities : nlu_result.entities[i].key = label

\* The call looked up the entity the extraction holds under the label.
LookedUpUnder(label) ==
   /\ HasEntity(label)
   /\ primary_entity.label = Some(label)
   /\ primary_entity.name = Some(DictGet(nlu_result.entities, label, << >>))
   /\ Len(kg_queries) = 1
   /\ kg_queries[1].op = "get_entity_details"
   /\ kg_queries[1].entity_name = primary_entity.name[1]

(* C21: for get_details the entity looked up is the one under the first    *)
(* label present among DataProduct, Satellite, Sensor, Parameter,           *)
(* ApplicationArea, Service, Institution; when none of them is present it   *)
(* is an entity under another label of the schema; an entity held only      *)
(* under a label of the recognizer is never taken, and the call answers     *)
(* with the clarifying prompt.                                              *)
C21_DetailsEntityByPreference ==
   (Called /\ nlu_result.main_intent = "get_details")
      => IF \E k \in DOMAIN DetailsPreferredLabels : HasEntity(DetailsPreferredLabels[k])
         THEN \E k \in DOMAIN DetailsPreferredLabels :
                 /\ \A j \in 1..(k - 1) : ~HasEntity(DetailsPreferredLabels[j])
                 /\ LookedUpUnder(DetailsPreferredLabels[k])
         ELSE IF ~NoSchemaEntity
         THEN \E k \in DOMAIN KG_SCHEMA_nodes : LookedUpUnder(KG_SCHEMA_nodes[k])
         ELSE /\ primary_entity.name = None
              /\ kg_queries = << >>
              /\ response_text = L(ClarifyingPrompt("get_details"))

C21_Witness ==
   /\ Called
   /\ nlu_result.main_intent = "get_details"
   /\ HasEntity("DataProduct")
   /\ HasEntity("Parameter")
   /\ LookedUpUnder("DataProduct")

\* The mapping the deduplication has built before it reaches candidate j.
MappingBefore(j) ==
   refine_entities(SubSeq(nlu_result.raw_entities, 1, j - 1), << >>)

(* C22: in the deduplication of process_query a candidate of the recognizer *)
(* is added to the entities under its own label only if no value already    *)
(* in the mapping is a substring of its text; a candidate whose text        *)
(* contains an already mapped value is dropped, the mapping staying as it   *)
(* was.                                                                     *)
C22_NERCandidateContainingMappedValueDropped ==
   NLUDone
      => \A j \in DOMAIN nlu_result.raw_entities :
            ( /\ nlu_result.raw_entities[j].type = "NER"
              /\ \E i \in DOMAIN MappingBefore(j) :
                    Contains(MappingBefore(j)[i].value, nlu_result.raw_entities[j].text) )
               => refine_step(MappingBefore(j), nlu_result.raw_entities[j]) = MappingBefore(j)

\* The utterance carries a resolution signal and no signal that is tested
\* before it.
ResolutionSignalFirst ==
   LET signals == Range(detect_intents(text))
   IN  /\ signals \cap {"Query_TimeResolution", "Query_SpatialResolution"} # { }
       /\ signals \cap {"Query_Download", "Query_Format"} = { }

\* The utterance carries a signal of the two intents answered through the
\* generative client.
HasLLMSignal == Range(detect_intents(text)) \cap {"Query_Summarize", "Query_UseCases"} # { }

\* The call returned the static text and asked nothing of the store or of
\* the generative client.
StaticAnswerOnly ==
   /\ pc = "returned"
   /\ response_text = L(DefaultResponse)
   /\ kg_queries = << >>
   /\ llm_prompts = << >>

(* C23: a call whose intent has no handler (general_query,                 *)
(* get_time_resolution, get_spatial_resolution) returns exactly the static *)
(* apology, without a query to the store and without a call of the         *)
(* generative client; an utterance with a resolution signal is such a call *)
(* also when it carries a summarize or use-cases signal.                   *)
C23_HandlerlessIntentsGetStaticAnswer ==
   Called
      => /\ nlu_result.main_intent \in HandlerlessIntents => StaticAnswerOnly
         /\ ResolutionSignalFirst
               => /\ nlu_result.main_intent \in {"get_time_resolution", "get_spatial_resolution"}
                  /\ StaticAnswerOnly

C23_Witness ==
   /\ Called
   /\ ResolutionSignalFirst
   /\ HasLLMSignal
   /\ Truthy(last_detailed_response_content)
   /\ StaticAnswerOnly

\* The institution get_services asks about: the Institution entry of the
\* extracted entities, "MOSDAC" without one.
InstitutionAsked ==
   IF HasEntity("Institution") THEN DictGet(nlu_result.entities, "Institution", << >>)
   ELSE MOSDAC

(* C24: for get_services the one query is for the services related by      *)
(* OFFERS_SERVICE to the Institution entry of the extracted entities, or   *)
(* to "MOSDAC" without such an entry; and as the extraction never yields   *)
(* an Institution entry, the institution asked about is always "MOSDAC".   *)
C24_ServicesOfMOSDAC ==
   (Called /\ nlu_result.main_intent = "get_services")
      => /\ Len(kg_queries) = 1
         /\ kg_queries[1].op = "get_related_entities"
         /\ kg_queries[1].pattern = "Institution"
         /\ kg_queries[1].entity_name = InstitutionAsked
         /\ kg_queries[1].records
               \in {<< >>, related_rows(graph, InstitutionAsked, "Institution",
                                        OFFERS_SERVICE, "Service")}
         /\ primary_entity = [label |-> Some("Institution"), name |-> Some(InstitutionAsked)]
         /\ ~HasEntity("Institution")
         /\ kg_queries[1].entity_name = MOSDAC

C24_Witness ==
   /\ Called
   /\ nlu_result.main_intent = "get_services"
   /\ HasEntity("ORG")
   /\ kg_queries[1].entity_name = MOSDAC
   /\ kg_queries[1].records # << >>
   /\ pc = "returned"

(* C25: in sequential use the two fields of the memory slot are set        *)
(* together and cleared together: initially and after every call of        *)
(* generate_response, returned or raised, the content is None if and only  *)
(* if the name is None.                                                    *)
C25_SlotFieldsPaired ==
   (last_detailed_response_content = None) <=> (last_detailed_entity_name = None)

\* A get_details call that raised while rendering, after it had written
\* both fields.
C25_Witness ==
   /\ pc = "raised"
   /\ nlu_result.main_intent = "get_details"
   /\ Truthy(last_detailed_response_content)
   /\ last_detailed_entity_name # None

\* The returned text ends with the offer of a summary or of use cases.
EndsWithOffer == response_text # << >> /\ LastPiece = L(OfferText)

=============================================================================
